---- MODULE Spec2Model ----
(***************************************************************************)
(* Link Pro client script (src/script-clean.js): the Analytics and Theme    *)
(* modules, the application controller and the window-level handlers.      *)
(*                                                                         *)
(* Each browser tab runs its own copy of the script; the tabs share only   *)
(* localStorage.  JavaScript values are modelled as tagged records so that *)
(* JSON.stringify / JSON.parse, property access on a missing property and  *)
(* a thrown TypeError are what the code makes of them.                     *)
(***************************************************************************)
EXTENDS Integers, Sequences, FiniteSets, TLC

(***************************************************************************)
(* Bounds of the model.                                                    *)
(***************************************************************************)
MaxEvents == 3      \* trackEvent calls per session
MaxLoads == 2       \* page loads over all tabs
MaxClock == 1       \* Date.now() ranges over 0..MaxClock ticks
MaxLog == 3         \* length of an arbitrary stored log (SpecStored)
TickMs == 500       \* milliseconds of one clock tick
MaxToggles == 2     \* clicks on the theme toggle per page load

Tabs == {"tabA", "tabB"}

\* APP_CONFIG.analytics.trackingKey
trackingKey == "linkpro_analytics"
\* the key of the theme preference
themeKey == "linkpro_theme"
\* window.location.href
Href == "https://linkpro.example/"

(***************************************************************************)
(* JavaScript values                                                       *)
(***************************************************************************)
Undefined == [t |-> "undefined"]
Null == [t |-> "null"]
NaN == [t |-> "NaN"]
Num(n) == [t |-> "number", v |-> n]
Str(s) == [t |-> "string", v |-> s]
Obj(props) == [t |-> "object", props |-> props]
Arr(items) == [t |-> "array", items |-> items]
\* a function object inherited from Object.prototype (constructor, toString, ...)
NativeFunction == [t |-> "function"]
NoProps == [k \in {} |-> Undefined]
EmptyArray == Arr(<<>>)

\* obj.key: undefined when the property is missing or obj is a primitive;
\* a TypeError (raised) when obj is null or undefined
GetProp(obj, key) ==
    IF obj.t \in {"null", "undefined"} THEN [raised |-> TRUE, value |-> Undefined]
    ELSE IF obj.t = "object" /\ key \in DOMAIN obj.props
         THEN [raised |-> FALSE, value |-> obj.props[key]]
    ELSE [raised |-> FALSE, value |-> Undefined]

\* (variant: the caller's fields win over the injected ones)
Spread_CallerWins(data, injected) ==
    [k \in (DOMAIN data) \cup (DOMAIN injected) |->
        IF k \in DOMAIN data THEN data[k] ELSE injected[k]]

\* {...data, ...injected}: the later spread wins
Spread(data, injected) ==
    [k \in (DOMAIN data) \cup (DOMAIN injected) |->
        IF k \in DOMAIN injected THEN injected[k] ELSE data[k]]

(***************************************************************************)
(* JSON                                                                    *)
(***************************************************************************)
\* The document JSON.stringify writes: properties whose value is undefined are
\* dropped, undefined array items and NaN become null.
RECURSIVE ToJSON(_)
ToJSON(v) ==
    CASE v.t = "object" ->
            Obj([k \in {j \in DOMAIN v.props : v.props[j].t # "undefined"} |->
                    ToJSON(v.props[k])])
      [] v.t = "array" ->
            Arr([i \in DOMAIN v.items |->
                    IF v.items[i].t = "undefined" THEN Null ELSE ToJSON(v.items[i])])
      [] v.t = "NaN" -> Null
      [] OTHER -> v

\* A string is either the text of a JSON document or some other text.
JsonText(doc) == [t |-> "string", json |-> TRUE, doc |-> doc]
PlainText(s) == [t |-> "string", json |-> FALSE, v |-> s]

JSONstringify(v) == JsonText(ToJSON(v))

\* JSON.parse: the document of a JSON text, a SyntaxError otherwise
JSONparse(text) ==
    IF text.json THEN [raised |-> FALSE, value |-> text.doc]
    ELSE [raised |-> TRUE, value |-> Undefined]

\* truthiness of what getItem returns: null and "" are falsy
Truthy(item) == item.t = "string" /\ (item.json \/ item.v # "")

VARIABLES
    storage,    \* localStorage: key -> string, or Null when the key is absent
    tabs,       \* per tab: the page's phase and the Analytics object's fields
    now,        \* Date.now(), in ticks
    loads,      \* page loads so far
    calls,      \* per tab: the (name, data) arguments of the session's trackEvent calls
    lastWrite,  \* the most recent trackEvent call: its tab, whether setItem succeeded,
                \* and which tab performed the most recent successful write
    ret,        \* what the most recent read operation returned to its caller
    prefersDark,    \* matchMedia('(prefers-color-scheme: dark)').matches
    reducedMotion,  \* matchMedia('(prefers-reduced-motion: reduce)').matches
    dom,        \* the document: the data-target attribute of each .stat-number
    handled     \* the most recent run of a listener of the page: which one, in
                \* which tab, the tab before it ran and whether it threw

vars == <<storage, tabs, now, loads, calls, lastWrite, ret, prefersDark,
          reducedMotion, dom, handled>>

NoRet == [op |-> "none"]
NoHandler == [op |-> "none"]
NoWrite == [op |-> "none", writer |-> "none"]

(***************************************************************************)
(* Results of a call: a returned value, or an exception raised to the      *)
(* caller.                                                                 *)
(***************************************************************************)
Return(v) == [raised |-> FALSE, value |-> v]
Raise == [raised |-> TRUE, value |-> Undefined]

(***************************************************************************)
(* localStorage                                                            *)
(***************************************************************************)
\* getItem: the stored string, null when the key is absent; throws when the
\* storage cannot be accessed
GetItem(store, key, readOk) ==
    IF readOk THEN Return(store[key]) ELSE Raise

\* setItem: throws (quota exceeded, storage unavailable) and writes nothing when
\* the write fails
SetItem(store, key, text, writeOk) ==
    IF writeOk THEN [raised |-> FALSE, storage |-> [store EXCEPT ![key] = text]]
    ELSE [raised |-> TRUE, storage |-> store]

(***************************************************************************)
(* Analytics                                                               *)
(***************************************************************************)
\* (variant: the write without its try/catch)
saveToStorage_NoCatch(store, events, writeOk) ==
    SetItem(store, trackingKey, JSONstringify(Arr(events)), writeOk)

\* (variant: the newest event appended to what the key already holds)
saveToStorage_Merge(store, events, writeOk) ==
    LET held == IF store[trackingKey] = Null THEN <<>>
                ELSE store[trackingKey].doc.items
        w == SetItem(store, trackingKey,
                     JsonText(Arr(held \o ToJSON(Arr(<<events[Len(events)]>>)).items)),
                     writeOk)
    IN  [raised |-> FALSE, storage |-> w.storage]

\* (variant: the catch block removes the key)
saveToStorage_ClearOnFail(store, events, writeOk) ==
    LET w == SetItem(store, trackingKey, JSONstringify(Arr(events)), writeOk)
    IN  [raised |-> FALSE,
         storage |-> IF w.raised THEN [store EXCEPT ![trackingKey] = Null]
                     ELSE w.storage]

\* Analytics.saveToStorage: the whole in-memory sequence is written; the
\* try/catch absorbs a failed write
saveToStorage(store, events, writeOk) ==
    LET w == SetItem(store, trackingKey, JSONstringify(Arr(events)), writeOk)
    IN  [raised |-> FALSE, storage |-> w.storage]

\* (variant: a session identifier generated for each event, from the clock)
NewEvent_OwnSession(self, id, clock, eventName, data) ==
    Obj([id |-> id,
         sessionId |-> [t |-> "string", session |-> clock],
         name |-> Str(eventName),
         data |-> Obj(Spread(data, [timestamp |-> Num(clock), url |-> Str(Href)]))])

\* the event object trackEvent builds
NewEvent(self, id, clock, eventName, data) ==
    Obj([id |-> id,
         sessionId |-> self.sessionId,
         name |-> Str(eventName),
         data |-> Obj(Spread(data, [timestamp |-> Num(clock), url |-> Str(Href)]))])

\* (variant: the event put at the front of the sequence)
trackEvent_Unshift(self, store, id, clock, eventName, data, writeOk) ==
    LET event == NewEvent(self, id, clock, eventName, data)
        pushed == [self EXCEPT !.events = <<event>> \o @]
        saved == saveToStorage(store, pushed.events, writeOk)
    IN  [raised |-> saved.raised, self |-> pushed, storage |-> saved.storage]

\* Analytics.trackEvent: push, then saveToStorage.  Until Analytics.init has
\* assigned this.events it is undefined, and this.events.push is a TypeError.
trackEvent(self, store, id, clock, eventName, data, writeOk) ==
    IF ~self.inited THEN [raised |-> TRUE, self |-> self, storage |-> store]
    ELSE LET event == NewEvent(self, id, clock, eventName, data)
             pushed == [self EXCEPT !.events = Append(@, event)]
             saved == saveToStorage(store, pushed.events, writeOk)
         IN  [raised |-> saved.raised, self |-> pushed, storage |-> saved.storage]

\* (variant: the read without its try/catch)
loadFromStorage_NoCatch(store, readOk) ==
    LET got == GetItem(store, trackingKey, readOk)
    IN  IF got.raised THEN Raise
        ELSE IF Truthy(got.value) THEN JSONparse(got.value)
        ELSE Return(EmptyArray)

\* Analytics.loadFromStorage
loadFromStorage(store, readOk) ==
    LET got == GetItem(store, trackingKey, readOk)
        tried == IF got.raised THEN Raise
                 ELSE IF Truthy(got.value) THEN JSONparse(got.value)
                 ELSE Return(EmptyArray)
    IN  IF tried.raised THEN Return(EmptyArray) ELSE tried

(***************************************************************************)
(* Analytics.getSummary                                                    *)
(***************************************************************************)
\* array.filter(e => e.name === name): a TypeError when an item is null
RECURSIVE FilterByName(_, _)
FilterByName(items, name) ==
    IF items = <<>> THEN Return(<<>>)
    ELSE LET n == GetProp(Head(items), "name")
             rest == FilterByName(Tail(items), name)
         IN  IF n.raised \/ rest.raised THEN Raise
             ELSE IF n.value = Str(name) THEN Return(<<Head(items)>> \o rest.value)
             ELSE rest

\* the members every plain object {} inherits from Object.prototype
ObjectPrototypeKeys ==
    {"constructor", "toString", "valueOf", "hasOwnProperty", "isPrototypeOf",
     "propertyIsEnumerable", "toLocaleString", "__proto__"}

\* categories[key] on the plain object `categories`: the own property, else
\* what Object.prototype holds under that name, else undefined
PlainObjectGet(props, key) ==
    IF key \in DOMAIN props THEN props[key]
    ELSE IF key = "__proto__" THEN Obj(NoProps)
    ELSE IF key \in ObjectPrototypeKeys THEN NativeFunction
    ELSE Undefined

\* categories[key] = value: assigning a primitive to __proto__ is ignored
PlainObjectSet(props, key, value) ==
    IF key = "__proto__" /\ value.t \notin {"object", "null"} THEN props
    ELSE [k \in (DOMAIN props) \cup {key} |-> IF k = key THEN value ELSE props[k]]

\* the property key a value is converted to
ToPropertyKey(v) ==
    CASE v.t = "string" -> v.v
      [] v.t = "number" -> ToString(v.v)
      [] v.t = "undefined" -> "undefined"
      [] v.t = "null" -> "null"
      [] v.t = "NaN" -> "NaN"
      [] OTHER -> "[object Object]"

Falsy(v) ==
    \/ v.t \in {"undefined", "null", "NaN"}
    \/ v.t = "number" /\ v.v = 0
    \/ v.t = "string" /\ v.v = ""

\* (variant: (v || 1) + 1)
OrZeroPlusOne_OrOne(v) ==
    LET x == IF Falsy(v) THEN Num(1) ELSE v
    IN  CASE x.t = "number" -> Num(x.v + 1)
          [] x.t = "string" -> Str(x.v \o "1")
          [] x.t = "function" -> Str("function Object() { [native code] }1")
          [] OTHER -> Str("[object Object]1")

\* (v || 0) + 1: numeric addition on a number, string concatenation otherwise
OrZeroPlusOne(v) ==
    LET x == IF Falsy(v) THEN Num(0) ELSE v
    IN  CASE x.t = "number" -> Num(x.v + 1)
          [] x.t = "string" -> Str(x.v \o "1")
          [] x.t = "function" -> Str("function Object() { [native code] }1")
          [] OTHER -> Str("[object Object]1")

\* clicks.forEach(click => { categories[click.data.category] = (... || 0) + 1 })
RECURSIVE CountCategories(_, _)
CountCategories(clicks, categories) ==
    IF clicks = <<>> THEN Return(Obj(categories))
    ELSE LET data == GetProp(Head(clicks), "data")
             category == IF data.raised THEN Raise ELSE GetProp(data.value, "category")
         IN  IF category.raised THEN Raise
             ELSE LET key == ToPropertyKey(category.value)
                  IN  CountCategories(Tail(clicks),
                          PlainObjectSet(categories, key,
                              OrZeroPlusOne(PlainObjectGet(categories, key))))

\* sessions.reduce((sum, session) => sum + session.data.duration, 0); the
\* durations met are numbers or missing (undefined), and number + undefined is NaN
RECURSIVE SumDurations(_, _)
SumDurations(sessions, sum) ==
    IF sessions = <<>> THEN Return(sum)
    ELSE LET data == GetProp(Head(sessions), "data")
             duration == IF data.raised THEN Raise ELSE GetProp(data.value, "duration")
         IN  IF duration.raised THEN Raise
             ELSE SumDurations(Tail(sessions),
                      CASE sum.t = "number" /\ duration.value.t = "number" ->
                              Num(sum.v + duration.value.v)
                        [] sum.t = "number" /\ duration.value.t = "null" -> sum
                        [] OTHER -> NaN)

\* (variant: Math.floor(num / den))
MathFloor(num, den) == num \div den

\* Math.round(num / den) for den > 0: the nearest integer, halves towards +infinity
MathRound(num, den) == (2 * num + den) \div (2 * den)

\* (variant: without the early return for an empty list of sessions; 0 / 0 is NaN)
calculateAverageSessionTime_NoGuard(items) ==
    LET sessions == FilterByName(items, "session_end")
    IN  IF sessions.raised THEN Raise
        ELSE LET totalTime == SumDurations(sessions.value, Num(0))
             IN  IF totalTime.raised THEN Raise
                 ELSE IF totalTime.value.t # "number" \/ Len(sessions.value) = 0
                      THEN Return(NaN)
                 ELSE Return(Num(MathRound(totalTime.value.v,
                                           Len(sessions.value) * 1000)))

\* Analytics.calculateAverageSessionTime(events)
calculateAverageSessionTime(items) ==
    LET sessions == FilterByName(items, "session_end")
    IN  IF sessions.raised THEN Raise
        ELSE IF Len(sessions.value) = 0 THEN Return(Num(0))
        ELSE LET totalTime == SumDurations(sessions.value, Num(0))
             IN  IF totalTime.raised THEN Raise
                 ELSE IF totalTime.value.t # "number" THEN Return(NaN)
                 ELSE Return(Num(MathRound(totalTime.value.v,
                                           Len(sessions.value) * 1000)))

\* Analytics.getSummary: events.filter is a TypeError unless events is an array
getSummary(store, readOk) ==
    LET events == loadFromStorage(store, readOk)
    IN  IF events.raised \/ events.value.t # "array" THEN Raise
        ELSE LET clicks == FilterByName(events.value.items, "link_click")
                 categories == IF clicks.raised THEN Raise
                               ELSE CountCategories(clicks.value, NoProps)
                 average == IF categories.raised THEN Raise
                            ELSE calculateAverageSessionTime(events.value.items)
             IN  IF average.raised THEN Raise
                 ELSE Return(Obj([totalEvents |-> Num(Len(events.value.items)),
                                  totalClicks |-> Num(Len(clicks.value)),
                                  categories |-> categories.value,
                                  averageSessionTime |-> average.value]))

\* LinkProApp.exportAnalytics: the text put in the downloaded file
exportAnalytics(store, readOk) ==
    LET data == loadFromStorage(store, readOk)
    IN  IF data.raised THEN Raise ELSE Return(JSONstringify(data.value))

(***************************************************************************)
(* Theme                                                                   *)
(***************************************************************************)
\* Theme.getStoredTheme: no try/catch, a failing read throws to the caller
getStoredTheme(store, readOk) == GetItem(store, themeKey, readOk)

\* Theme.storeTheme: no try/catch, a failing write throws to the caller
storeTheme(store, theme, writeOk) ==
    SetItem(store, themeKey, PlainText(theme.v), writeOk)

\* Theme.updateThemeIcon: the class of the icon in the toggle
updateThemeIcon(theme, dark) ==
    IF theme = Str("dark") \/ (theme = Str("system") /\ dark)
    THEN "fas fa-sun" ELSE "fas fa-moon"

\* (variant: the state written to the attribute without resolving 'system')
applyTheme_Literal(page, theme, dark) ==
    [page EXCEPT !.dataTheme = theme, !.icon = updateThemeIcon(theme, dark)]

\* Theme.applyTheme: data-theme of <html> is the OS preference when the state
\* is 'system', the state itself otherwise
applyTheme(page, theme, dark) ==
    [page EXCEPT !.dataTheme = IF theme = Str("system")
                               THEN (IF dark THEN Str("dark") ELSE Str("light"))
                               ELSE theme,
                 !.icon = updateThemeIcon(theme, dark)]

\* (variant: a stored value outside light, dark and system is dropped)
ThemeInit_Checked(page, store, dark, readOk) ==
    LET got == getStoredTheme(store, readOk)
        current == IF Truthy(got.value) /\ got.value.v \in {"light", "dark", "system"}
                   THEN Str(got.value.v) ELSE Str("system")
    IN  IF got.raised THEN [raised |-> TRUE, self |-> page]
        ELSE [raised |-> FALSE,
              self |-> applyTheme([page EXCEPT !.currentTheme = current], current, dark)]

\* Theme.init up to the registration of its listeners:
\* this.currentTheme = this.getStoredTheme() || 'system', then applyTheme
ThemeInit(page, store, dark, readOk) ==
    LET got == getStoredTheme(store, readOk)
        current == IF Truthy(got.value) THEN Str(got.value.v) ELSE Str("system")
    IN  IF got.raised THEN [raised |-> TRUE, self |-> page]
        ELSE [raised |-> FALSE,
              self |-> applyTheme([page EXCEPT !.currentTheme = current], current, dark)]

\* (variant: light -> dark -> system -> light)
ToggledTheme_Cycle(current) ==
    CASE current = Str("light") -> Str("dark")
      [] current = Str("dark") -> Str("system")
      [] OTHER -> Str("light")

\* the state a click on the toggle moves to:
\* this.currentTheme === 'light' ? 'dark' : 'light'
ToggledTheme(current) ==
    IF current = Str("light") THEN Str("dark") ELSE Str("light")

\* (variant: the listener leaves the page as it is)
watchSystemTheme_Ignore(page, dark) == page

\* (variant: the listener without its test of the state)
watchSystemTheme_NoGuard(page, dark) == applyTheme(page, Str("system"), dark)

\* the change listener Theme.watchSystemTheme registers on the media query
watchSystemTheme(page, dark) ==
    IF page.currentTheme = Str("system") THEN applyTheme(page, Str("system"), dark)
    ELSE page

(***************************************************************************)
(* Animations                                                              *)
(***************************************************************************)
\* the elements matching '.link-card, .links-group'
RevealElements == {"link-card-1", "link-card-2", "links-group"}

\* the elements matching '.stat-number'
StatElements == {"stat-1", "stat-2"}

\* duration / 16 of Utils.animateNumber with its default duration of 2000: the
\* number of increments that add up to the target
Steps == 125

Digits == <<"0", "1", "2", "3", "4", "5", "6", "7", "8", "9">>
IsDigit(c) == \E d \in 1..10 : Digits[d] = c
DigitValue(c) == (CHOOSE d \in 1..10 : Digits[d] = c) - 1

\* the value of the longest prefix of digits of a sequence of characters
RECURSIVE LeadingDigits(_, _)
LeadingDigits(chars, acc) ==
    IF chars = <<>> \/ ~IsDigit(Head(chars)) THEN acc
    ELSE LeadingDigits(Tail(chars), 10 * acc + DigitValue(Head(chars)))

\* the value of an attribute: its characters
Chars(chars) == [t |-> "string", chars |-> chars]

\* parseInt(el.dataset.target): a missing attribute is converted to the string
\* 'undefined'; an optional sign, then the leading digits; NaN when there is none
parseInt(attr) ==
    IF attr.t = "undefined" THEN NaN
    ELSE LET signed == attr.chars # <<>> /\ Head(attr.chars) \in {"-", "+"}
             digits == IF signed THEN Tail(attr.chars) ELSE attr.chars
             n == LeadingDigits(digits, 0)
         IN  IF digits = <<>> \/ ~IsDigit(Head(digits)) THEN NaN
             ELSE IF signed /\ Head(attr.chars) = "-" THEN Num(0 - n) ELSE Num(n)

\* an element before any script has touched it
PlainReveal == [ready |-> FALSE, in |-> FALSE, observed |-> FALSE, fired |-> 0]
PlainStat ==
    [observed |-> FALSE, timers |-> 0, running |-> FALSE, target |-> 0,
     ticks |-> 0, below |-> FALSE, text |-> Null]
PlainScroll ==
    [listening |-> FALSE, scrollY |-> 0, timeout |-> FALSE, ticking |-> FALSE,
     raf |-> 0, ran |-> 0, header |-> Null]

\* Animations.setupIntersectionObserver: every element is marked animate-ready
\* and observed
setupIntersectionObserver(page) ==
    [page EXCEPT !.reveal = [e \in RevealElements |->
                                [@[e] EXCEPT !.ready = TRUE, !.observed = TRUE]]]

\* Animations.setupNumberAnimations: every .stat-number is observed
setupNumberAnimations(page) ==
    [page EXCEPT !.stats = [e \in StatElements |-> [@[e] EXCEPT !.observed = TRUE]]]

\* Animations.setupScrollAnimations: the debounced scroll listener
setupScrollAnimations(page) ==
    [page EXCEPT !.scroll.listening = TRUE]

\* (variant: Animations.init without the test of the preference)
AnimationsInit_NoGate(page, reduced) ==
    setupScrollAnimations(setupNumberAnimations(setupIntersectionObserver(page)))

\* Animations.init: with the reduced-motion preference set, the body is marked
\* and nothing is registered
AnimationsInit(page, reduced) ==
    IF reduced THEN [page EXCEPT !.reducedClass = TRUE]
    ELSE setupScrollAnimations(setupNumberAnimations(setupIntersectionObserver(page)))

\* (variant: the callback without unobserve)
RevealCallback_KeepObserving(page, entries) ==
    [page EXCEPT !.reveal = [e \in RevealElements |->
        IF e \in DOMAIN entries /\ entries[e]
        THEN [@[e] EXCEPT !.in = TRUE, !.fired = @ + 1]
        ELSE @[e]]]

\* the callback of the reveal observer; entries maps each reported element to
\* its isIntersecting
RevealCallback(page, entries) ==
    [page EXCEPT !.reveal = [e \in RevealElements |->
        IF e \in DOMAIN entries /\ entries[e]
        THEN [@[e] EXCEPT !.in = TRUE, !.observed = FALSE, !.fired = @ + 1]
        ELSE @[e]]]

\* (variant: unobserve only once the animation has ended)
StatCallback_KeepObserving(page, entries, targets) ==
    [page EXCEPT !.stats = [e \in StatElements |->
        IF e \in DOMAIN entries /\ entries[e] /\ parseInt(targets[e]) # NaN
        THEN [@[e] EXCEPT !.timers = @ + 1, !.running = TRUE,
                          !.target = parseInt(targets[e]).v,
                          !.ticks = 0, !.below = FALSE]
        ELSE @[e]]]

\* the callback of the counter observer: animateNumber starts a timer from
\* current = 0, and the element is unobserved, when its target parses
StatCallback(page, entries, targets) ==
    [page EXCEPT !.stats = [e \in StatElements |->
        IF e \in DOMAIN entries /\ entries[e] /\ parseInt(targets[e]) # NaN
        THEN [@[e] EXCEPT !.observed = FALSE, !.timers = @ + 1, !.running = TRUE,
                          !.target = parseInt(targets[e]).v,
                          !.ticks = 0, !.below = FALSE]
        ELSE @[e]]]

\* the increment target / Steps and its multiples are computed exactly when
\* Steps divides the target; otherwise the accumulated value carries a rounding
\* error, which may leave it just below the exact sum
ExactSteps(target) == target % Steps = 0

\* Math.floor(current) for current = ticks * target / Steps, possibly just below
RenderedValue(target, ticks, below) ==
    LET whole == (ticks * target) \div Steps
    IN  IF below /\ (ticks * target) % Steps = 0 THEN whole - 1 ELSE whole

\* (variant: the callback renders before clamping to the target)
TimerTick_NoClamp(stat, below) ==
    LET ticks == stat.ticks + 1
    IN  [stat EXCEPT !.ticks = ticks, !.below = below,
                     !.running = ticks * stat.target < Steps * stat.target,
                     !.text = Num(RenderedValue(stat.target, ticks, below))]

\* (variant: the rendered value rounded up)
TimerTick_Ceil(stat, below) ==
    LET ticks == stat.ticks + 1
        reached == \/ ticks * stat.target > Steps * stat.target
                   \/ ticks * stat.target = Steps * stat.target /\ ~below
    IN  IF reached
        THEN [stat EXCEPT !.ticks = ticks, !.below = FALSE, !.running = FALSE,
                          !.text = Num(stat.target)]
        ELSE [stat EXCEPT !.ticks = ticks, !.below = below,
                          !.text = Num(RenderedValue(stat.target, ticks, below) + 1)]

\* one run of the setInterval callback of Utils.animateNumber: current +=
\* increment; at or over the target, current = target and clearInterval; the
\* floor of current is rendered
TimerTick(stat, below) ==
    LET ticks == stat.ticks + 1
        reached == \/ ticks * stat.target > Steps * stat.target
                   \/ ticks * stat.target = Steps * stat.target /\ ~below
    IN  IF reached
        THEN [stat EXCEPT !.ticks = ticks, !.below = FALSE, !.running = FALSE,
                          !.text = Num(stat.target)]
        ELSE [stat EXCEPT !.ticks = ticks, !.below = below,
                          !.text = Num(RenderedValue(stat.target, ticks, below))]

\* Math.min(scrollY / 100, 1), in hundredths
ScrollOpacity(scrollY) == IF scrollY < 100 THEN scrollY ELSE 100

\* the function Utils.debounce returns, called for a scroll event: the pending
\* timeout is cleared and a new one is set
DebouncedScroll(scroll) == [scroll EXCEPT !.timeout = TRUE]

\* onScroll, run by the timeout of the debounce
onScroll(scroll) ==
    IF scroll.ticking THEN [scroll EXCEPT !.timeout = FALSE]
    ELSE [scroll EXCEPT !.timeout = FALSE, !.ticking = TRUE, !.raf = @ + 1]

\* (variant: updateScrollAnimations leaves the ticking flag set)
updateScrollAnimations_StayTicking(scroll) ==
    IF scroll.raf = 0 THEN [scroll EXCEPT !.ran = 0]
    ELSE [scroll EXCEPT !.header = Num(ScrollOpacity(scroll.scrollY)),
                        !.ran = scroll.raf, !.raf = 0]

\* updateScrollAnimations, run for each requestAnimationFrame callback pending
\* at the frame
updateScrollAnimations(scroll) ==
    IF scroll.raf = 0 THEN [scroll EXCEPT !.ran = 0]
    ELSE [scroll EXCEPT !.header = Num(ScrollOpacity(scroll.scrollY)),
                        !.ticking = FALSE, !.ran = scroll.raf, !.raf = 0]

(***************************************************************************)
(* Performance                                                             *)
(***************************************************************************)
\* the <img> elements of the page
Images == {"img-hero", "img-empty", "img-plain"}

\* the data-src attribute of each image in the document: a deferred source, an
\* empty attribute, no attribute
DeferredSource ==
    [e \in Images |-> CASE e = "img-hero" -> Str("hero.jpg")
                        [] e = "img-empty" -> Str("")
                        [] OTHER -> Undefined]

\* the src attribute of each image in the document
DocumentSource ==
    [e \in Images |-> IF e = "img-plain" THEN Str("logo.png") ELSE Null]

\* an image before Performance.init: assigned counts the assignments of src by
\* the script
PlainImage(e) ==
    [observed |-> FALSE, dataSrc |-> DeferredSource[e], src |-> DocumentSource[e],
     assigned |-> 0]

\* Performance.setupImageLazyLoading: every img[data-src] is observed
setupImageLazyLoading(page) ==
    [page EXCEPT !.images = [e \in Images |->
        [@[e] EXCEPT !.observed = (page.images[e].dataSrc # Undefined)]]]

\* Performance.init (the prefetch and resource hints add <link> elements only)
PerformanceInit(page) == setupImageLazyLoading(page)

\* (variant: the callback does not unobserve the image)
ImageCallback_KeepObserving(page, entries) ==
    [page EXCEPT !.images = [e \in Images |->
        IF e \in DOMAIN entries /\ entries[e] /\ ~Falsy(page.images[e].dataSrc)
        THEN [@[e] EXCEPT !.src = page.images[e].dataSrc, !.dataSrc = Undefined,
                          !.assigned = @ + 1]
        ELSE @[e]]]

\* the callback of the image observer: an intersecting image with a non-empty
\* data-src gets it as src, loses the attribute and is unobserved
ImageCallback(page, entries) ==
    [page EXCEPT !.images = [e \in Images |->
        IF e \in DOMAIN entries /\ entries[e] /\ ~Falsy(page.images[e].dataSrc)
        THEN [@[e] EXCEPT !.src = page.images[e].dataSrc, !.dataSrc = Undefined,
                          !.observed = FALSE, !.assigned = @ + 1]
        ELSE @[e]]]

(***************************************************************************)
(* The page                                                                *)
(***************************************************************************)
\* the link cards of the page: href, data-category attribute (undefined when
\* the attribute is missing), the text of the .link-title child, if any, and the
\* position in the .links-grid
LinkCards ==
    {[href |-> Str("https://music.example/"), category |-> Str("music"),
      title |-> Str("Listen"), position |-> Num(1)],
     [href |-> Str("mailto:hello@linkpro.example"), category |-> Undefined,
      title |-> Undefined, position |-> Num(2)]}

\* Utils.getDeviceInfo
getDeviceInfo ==
    Obj([userAgent |-> Str("UA"), language |-> Str("en"), platform |-> Str("P"),
         viewport |-> Obj([width |-> Num(390), height |-> Num(844)]),
         pixelRatio |-> Num(2), connection |-> Null])

\* Analytics.generateSessionId: a string no other session has; n counts the
\* page loads
generateSessionId(n) == [t |-> "string", session |-> n]

\* Utils.generateId: a string no other event has
generateId(self) ==
    [t |-> "string", session |-> self.sessionId.session, event |-> Len(self.events) + 1]

\* a tab with no page: nothing of the script exists
ClosedTab ==
    [phase |-> "closed", load |-> 0, deferred |-> FALSE, inited |-> FALSE,
     sessionId |-> Undefined, startTime |-> Undefined,
     hidden |-> FALSE, events |-> <<>>,
     currentTheme |-> Undefined, dataTheme |-> Null, icon |-> "none", toggles |-> 0,
     isInitialized |-> FALSE, noticeShown |-> FALSE, noticeTimer |-> FALSE,
     reducedClass |-> FALSE,
     reveal |-> [e \in RevealElements |-> PlainReveal],
     stats |-> [e \in StatElements |-> PlainStat],
     scroll |-> PlainScroll,
     images |-> [e \in Images |-> PlainImage(e)]]

\* the page once the script has been evaluated and before LinkProApp.init: the
\* objects exist, Analytics.sessionId, startTime, events and Theme.currentTheme
\* are still undefined; deferred tells that the document was still loading
FreshPage(n, deferred) ==
    [ClosedTab EXCEPT !.phase = "loading", !.load = n, !.deferred = deferred]

\* the part of the state one trackEvent call reads and writes
Current ==
    [tabs |-> tabs, storage |-> storage, calls |-> calls,
     lastWrite |-> lastWrite]

\* one call Analytics.trackEvent(eventName, data) in tab t
Track(s, t, eventName, data, writeOk) ==
    LET r == trackEvent(s.tabs[t], s.storage, generateId(s.tabs[t]), now,
                        eventName, data, writeOk)
    IN  [tabs |-> [s.tabs EXCEPT ![t] = r.self],
         storage |-> r.storage,
         calls |-> [s.calls EXCEPT ![t] = Append(@, [name |-> eventName, data |-> data])],
         lastWrite |-> [op |-> "trackEvent", tab |-> t, name |-> eventName,
                        ok |-> writeOk, raised |-> r.raised,
                        before |-> s.storage,
                        lenBefore |-> Len(s.tabs[t].events),
                        writer |-> IF writeOk THEN t ELSE s.lastWrite.writer,
                        writerSession |-> IF writeOk THEN s.tabs[t].sessionId
                                          ELSE IF s.lastWrite.writer = "none" THEN Undefined
                                          ELSE s.lastWrite.writerSession,
                        writerLen |-> IF writeOk THEN Len(r.self.events)
                                      ELSE IF s.lastWrite.writer = "none" THEN 0
                                      ELSE s.lastWrite.writerLen,
                        writerLast |-> IF writeOk
                                       THEN ToJSON(r.self.events[Len(r.self.events)])
                                       ELSE IF s.lastWrite.writer = "none" THEN Undefined
                                       ELSE s.lastWrite.writerLast]]

\* a call Analytics.trackEvent(eventName, data) from a listener that may run
\* before Analytics.init: the call throws and changes nothing then
TryTrack(s, t, eventName, data, writeOk) ==
    LET r == trackEvent(s.tabs[t], s.storage, Undefined, now, eventName, data, writeOk)
    IN  IF ~s.tabs[t].inited THEN [raised |-> r.raised, state |-> s]
        ELSE [raised |-> FALSE, state |-> Track(s, t, eventName, data, writeOk)]

CommitAs(s, h) ==
    /\ tabs' = s.tabs
    /\ storage' = s.storage
    /\ calls' = s.calls
    /\ lastWrite' = s.lastWrite
    /\ ret' = NoRet
    /\ handled' = h

Commit(s) == CommitAs(s, NoHandler)

\* (variant: Analytics.init takes up the events the key holds)
AnalyticsInit_Resume(s, t, writeOk) ==
    LET held == IF s.storage[trackingKey] = Null THEN <<>>
                ELSE s.storage[trackingKey].doc.items
        started ==
            [s EXCEPT !.tabs[t] = [@ EXCEPT !.sessionId = generateSessionId(s.tabs[t].load),
                                            !.startTime = Num(now),
                                            !.events = held,
                                            !.inited = TRUE],
                      !.calls[t] = <<>>]
    IN  Track(started, t, "page_view",
              [url |-> Str(Href), referrer |-> Str(""), device |-> getDeviceInfo],
              writeOk)

\* (variant: Analytics.init without its page_view event)
AnalyticsInit_NoPageView(s, t, writeOk) ==
    [s EXCEPT !.tabs[t] = [@ EXCEPT !.sessionId = generateSessionId(s.tabs[t].load),
                                    !.startTime = Num(now),
                                    !.events = <<>>,
                                    !.inited = TRUE],
              !.calls[t] = <<>>]

\* Analytics.init: a new session, then the page_view event
AnalyticsInit(s, t, writeOk) ==
    LET started ==
            [s EXCEPT !.tabs[t] = [@ EXCEPT !.sessionId = generateSessionId(s.tabs[t].load),
                                            !.startTime = Num(now),
                                            !.events = <<>>,
                                            !.inited = TRUE],
                      !.calls[t] = <<>>]
    IN  Track(started, t, "page_view",
              [url |-> Str(Href), referrer |-> Str(""), device |-> getDeviceInfo],
              writeOk)

\* Analytics.trackLinkClick(link, category)
trackLinkClick(s, t, link, category, writeOk) ==
    Track(s, t, "link_click",
          [linkUrl |-> link.href, linkText |-> link.title, category |-> category,
           position |-> link.position],
          writeOk)

\* Analytics.trackSessionEnd
trackSessionEnd(s, t, writeOk) ==
    Track(s, t, "session_end",
          [duration |-> Num(now - s.tabs[t].startTime.v),
           eventsCount |-> Num(Len(s.tabs[t].events))],
          writeOk)

\* (variant: the notice is shown and never removed)
showError_NoTimer(page) == [page EXCEPT !.noticeShown = TRUE]

\* LinkProApp.showError: the notice is appended to the body and a timeout is
\* set that removes it
showError(page) == [page EXCEPT !.noticeShown = TRUE, !.noticeTimer = TRUE]

\* LinkProApp.init: Analytics.init, Animations.init, Theme.init, the wiring of
\* the listeners, then
\* the app_initialized event.  An exception of Theme.init is caught by the
\* try/catch of init: showError, and neither the listeners of
\* setupEventListeners nor the app_initialized event follow.
AppInit(s, t, ok1, themeReadOk, ok2) ==
    LET a == AnalyticsInit(s, t, ok1)
        animated == AnimationsInit(a.tabs[t], reducedMotion)
        th == ThemeInit(animated, a.storage, prefersDark, themeReadOk)
    IN  IF th.raised THEN [a EXCEPT !.tabs[t] = showError([animated EXCEPT !.phase = "failed"])]
        ELSE Track([a EXCEPT !.tabs[t] = [PerformanceInit(th.self) EXCEPT
                                             !.phase = "ready",
                                             !.isInitialized = TRUE]],
                   t, "app_initialized",
                   [loadTime |-> Num(0), userAgent |-> Str("UA")], ok2)

InitHandled(t, themeReadOk) ==
    [op |-> "init", tab |-> t, themeReadOk |-> themeReadOk]

\* bootstrap, document.readyState is not 'loading': the window-level handlers
\* are registered and LinkProApp.init runs at once
PageLoad(t) ==
    /\ tabs[t].phase = "closed"
    /\ loads < MaxLoads
    /\ loads' = loads + 1
    /\ \E ok1, themeReadOk, ok2 \in BOOLEAN :
          CommitAs(AppInit([Current EXCEPT !.tabs[t] = FreshPage(loads + 1, FALSE),
                                           !.calls[t] = <<>>],
                           t, ok1, themeReadOk, ok2),
                   InitHandled(t, themeReadOk))
    /\ UNCHANGED <<now, prefersDark, reducedMotion, dom>>

\* bootstrap, document.readyState is 'loading': the window-level handlers are
\* registered and LinkProApp.init waits for DOMContentLoaded
ScriptLoading(t) ==
    /\ tabs[t].phase = "closed"
    /\ loads < MaxLoads
    /\ loads' = loads + 1
    /\ Commit([Current EXCEPT !.tabs[t] = FreshPage(loads + 1, TRUE),
                              !.calls[t] = <<>>])
    /\ UNCHANGED <<now, prefersDark, reducedMotion, dom>>

\* the DOMContentLoaded listener of the bootstrap
DOMContentLoaded(t) ==
    /\ tabs[t].phase = "loading"
    /\ \E ok1, themeReadOk, ok2 \in BOOLEAN :
          CommitAs(AppInit(Current, t, ok1, themeReadOk, ok2),
                   InitHandled(t, themeReadOk))
    /\ UNCHANGED <<now, loads, prefersDark, reducedMotion, dom>>

CanTrack(t) == tabs[t].phase = "ready" /\ Len(tabs[t].events) < MaxEvents

\* click listener of a link card -> Analytics.trackLinkClick
LinkClick(t) ==
    /\ CanTrack(t)
    /\ \E card \in LinkCards, writeOk \in BOOLEAN :
          LET category == IF Falsy(card.category) THEN Str("unknown")
                          ELSE card.category
          IN  Commit(trackLinkClick(Current, t, card, category, writeOk))
    /\ UNCHANGED <<now, loads, prefersDark, reducedMotion, dom>>

\* visibilitychange listener
VisibilityChange(t) ==
    /\ CanTrack(t)
    /\ \E writeOk \in BOOLEAN :
          LET hidden == ~tabs[t].hidden
              tracked == Track(Current, t,
                               IF hidden THEN "page_hidden" ELSE "page_visible",
                               NoProps, writeOk)
          IN  Commit([tracked EXCEPT !.tabs[t].hidden = hidden])
    /\ UNCHANGED <<now, loads, prefersDark, reducedMotion, dom>>

\* click listener of #themeToggle: the state is flipped, stored, applied and
\* reported, in this order; an exception of storeTheme ends the listener
ThemeToggle(t) ==
    /\ CanTrack(t)
    /\ tabs[t].toggles < MaxToggles
    /\ \E themeWriteOk, writeOk \in BOOLEAN :
          LET theme == ToggledTheme(tabs[t].currentTheme)
              flipped == [tabs[t] EXCEPT !.currentTheme = theme, !.toggles = @ + 1]
              stored == storeTheme(storage, theme, themeWriteOk)
              h == [op |-> "toggle", tab |-> t, raised |-> stored.raised,
                    themeWriteOk |-> themeWriteOk, before |-> tabs[t]]
          IN  IF stored.raised
              THEN CommitAs([Current EXCEPT !.tabs[t] = flipped], h)
              ELSE CommitAs(Track([Current EXCEPT
                                      !.tabs[t] = applyTheme(flipped, theme, prefersDark),
                                      !.storage = stored.storage],
                                  t, "theme_change", [theme |-> theme], writeOk),
                            h)
    /\ UNCHANGED <<now, loads, prefersDark, reducedMotion, dom>>

\* the OS color scheme changes: the change listener runs in every page whose
\* Theme.init has registered it
SystemThemeChange ==
    /\ prefersDark' = ~prefersDark
    /\ tabs' = [t \in Tabs |->
                  IF tabs[t].phase = "ready" THEN watchSystemTheme(tabs[t], ~prefersDark)
                  ELSE tabs[t]]
    /\ handled' = [op |-> "systemTheme", before |-> tabs]
    /\ ret' = NoRet
    /\ UNCHANGED <<storage, now, loads, calls, lastWrite, reducedMotion, dom>>

\* the page has scripts loaded: the window-level handlers are registered
Loaded(t) == tabs[t].phase \in {"loading", "failed", "ready"}

\* (variant: setupEventListeners registers no 'error' listener)
WindowError_GlobalOnly(t) ==
    /\ Loaded(t)
    /\ Len(tabs[t].events) < MaxEvents
    /\ \E ok1, ok2 \in BOOLEAN :
          LET app == [name |-> "error",
                      data |-> [message |-> Str("boom"), filename |-> Str("x.js"),
                                lineno |-> Num(1)],
                      ok |-> ok1]
              global == [name |-> "global_error",
                         data |-> [message |-> Str("boom"), source |-> Undefined,
                                   lineno |-> Num(1), colno |-> Num(1)],
                         ok |-> ok2]
              listeners == <<global>>
              first == TryTrack(Current, t, listeners[1].name, listeners[1].data,
                                listeners[1].ok)
              last == IF Len(listeners) = 1 THEN first
                      ELSE TryTrack(first.state, t, listeners[2].name,
                                    listeners[2].data, listeners[2].ok)
          IN  CommitAs(last.state,
                       [op |-> "error", tab |-> t,
                        raised |-> first.raised \/ last.raised,
                        listeners |-> Len(listeners), before |-> tabs[t]])
    /\ UNCHANGED <<now, loads, prefersDark, reducedMotion, dom>>

\* an uncaught error is reported to the window: the 'error' listeners run in
\* the order of their registration, the one of setupEventListeners (when init
\* got that far) and the window-level one; an exception of one listener does
\* not stop the other
WindowError(t) ==
    /\ Loaded(t)
    /\ Len(tabs[t].events) < MaxEvents
    /\ \E ok1, ok2 \in BOOLEAN :
          LET app == [name |-> "error",
                      data |-> [message |-> Str("boom"), filename |-> Str("x.js"),
                                lineno |-> Num(1)],
                      ok |-> ok1]
              global == [name |-> "global_error",
                         data |-> [message |-> Str("boom"), source |-> Undefined,
                                   lineno |-> Num(1), colno |-> Num(1)],
                         ok |-> ok2]
              listeners == IF tabs[t].phase # "ready" THEN <<global>>
                           ELSE IF tabs[t].deferred THEN <<global, app>>
                           ELSE <<app, global>>
              first == TryTrack(Current, t, listeners[1].name, listeners[1].data,
                                listeners[1].ok)
              last == IF Len(listeners) = 1 THEN first
                      ELSE TryTrack(first.state, t, listeners[2].name,
                                    listeners[2].data, listeners[2].ok)
          IN  CommitAs(last.state,
                       [op |-> "error", tab |-> t,
                        raised |-> first.raised \/ last.raised,
                        listeners |-> Len(listeners), before |-> tabs[t]])
    /\ UNCHANGED <<now, loads, prefersDark, reducedMotion, dom>>

\* a promise rejection nobody handles is reported to the window
UnhandledRejection(t) ==
    /\ Loaded(t)
    /\ Len(tabs[t].events) < MaxEvents
    /\ \E reason \in {Str("boom"), Undefined}, writeOk \in BOOLEAN :
          LET r == TryTrack(Current, t, "promise_rejection", [reason |-> reason],
                            writeOk)
          IN  CommitAs(r.state,
                       [op |-> "unhandledrejection", tab |-> t, raised |-> r.raised,
                        listeners |-> 1, before |-> tabs[t]])
    /\ UNCHANGED <<now, loads, prefersDark, reducedMotion, dom>>

\* beforeunload listener -> Analytics.trackSessionEnd.  The event is dispatched
\* for every navigation away from the page; the page is unloaded unless the
\* navigation ends in a download, an external handler or a cancellation.
BeforeUnload(t) ==
    /\ tabs[t].phase \in {"failed", "ready"}
    /\ \E writeOk, unloaded \in BOOLEAN :
          /\ ~unloaded => Len(tabs[t].events) < MaxEvents
          /\ LET tracked == trackSessionEnd(Current, t, writeOk)
             IN  Commit(IF unloaded THEN [tracked EXCEPT !.tabs[t].phase = "closed"]
                        ELSE tracked)
    /\ UNCHANGED <<now, loads, prefersDark, reducedMotion, dom>>

\* a listener that changes only the page of tab t
SetPage(t, page) ==
    /\ tabs' = [tabs EXCEPT ![t] = page]
    /\ handled' = NoHandler
    /\ ret' = NoRet
    /\ UNCHANGED <<storage, now, loads, calls, lastWrite, prefersDark,
                   reducedMotion, dom>>

\* Animations.init has run in the page (it precedes Theme.init)
Wired(t) == tabs[t].phase \in {"failed", "ready"}

\* the reduced-motion preference changes: no listener of the script watches it
ReducedMotionChange ==
    /\ reducedMotion' = ~reducedMotion
    /\ handled' = NoHandler
    /\ ret' = NoRet
    /\ UNCHANGED <<storage, tabs, now, loads, calls, lastWrite, prefersDark, dom>>

\* the entries an observer may report: one per observed element that crossed
\* its threshold, with its isIntersecting
Entries(observed) ==
    UNION {[S -> BOOLEAN] : S \in (SUBSET observed) \ {{}}}

\* the reveal observer reports entries
RevealIntersect(t) ==
    /\ Wired(t)
    /\ \E entries \in Entries({e \in RevealElements : tabs[t].reveal[e].observed}) :
          SetPage(t, RevealCallback(tabs[t], entries))

\* the counter observer reports entries
StatIntersect(t) ==
    /\ Wired(t)
    /\ \E entries \in Entries({e \in StatElements : tabs[t].stats[e].observed}) :
          SetPage(t, StatCallback(tabs[t], entries, dom))

\* the interval timer of a counter animation fires
StatTimer(t) ==
    /\ Wired(t)
    /\ \E e \in StatElements :
          /\ tabs[t].stats[e].running
          /\ \E below \in (IF ExactSteps(tabs[t].stats[e].target) THEN {FALSE}
                           ELSE BOOLEAN) :
                SetPage(t, [tabs[t] EXCEPT !.stats[e] = TimerTick(@, below)])

\* window.scrollY as the browser reports it: negative while the page is pulled
\* beyond its top (elastic overscroll)
ScrollOffsets == {0 - 50, 0, 50, 150}

\* the page is scrolled: a scroll event for the debounced listener
Scroll(t) ==
    /\ Wired(t)
    /\ \E y \in ScrollOffsets \ {tabs[t].scroll.scrollY} :
          LET moved == [tabs[t].scroll EXCEPT !.scrollY = y]
          IN  SetPage(t, [tabs[t] EXCEPT !.scroll = IF moved.listening
                                                    THEN DebouncedScroll(moved)
                                                    ELSE moved])

\* the timeout of the debounce fires: onScroll
ScrollTimeout(t) ==
    /\ Wired(t)
    /\ tabs[t].scroll.timeout
    /\ SetPage(t, [tabs[t] EXCEPT !.scroll = onScroll(@)])

\* an animation frame: the pending requestAnimationFrame callbacks run
AnimationFrame(t) ==
    /\ Wired(t)
    /\ tabs[t].scroll.raf > 0 \/ tabs[t].scroll.ran > 0
    /\ SetPage(t, [tabs[t] EXCEPT !.scroll = updateScrollAnimations(@)])

\* the image observer reports entries
ImageIntersect(t) ==
    /\ tabs[t].phase = "ready"
    /\ \E entries \in Entries({e \in Images : tabs[t].images[e].observed}) :
          /\ tabs' = [tabs EXCEPT ![t] = ImageCallback(tabs[t], entries)]
          /\ handled' = [op |-> "images", tab |-> t, entries |-> entries]
          /\ ret' = NoRet
    /\ UNCHANGED <<storage, now, loads, calls, lastWrite, prefersDark,
                   reducedMotion, dom>>

\* the timeout of showError fires: the notice is removed
NoticeTimeout(t) ==
    /\ Wired(t)
    /\ tabs[t].noticeTimer
    /\ SetPage(t, [tabs[t] EXCEPT !.noticeShown = FALSE, !.noticeTimer = FALSE])

\* the data of a direct call of Analytics.trackEvent (the object is reachable
\* as window.LinkProDebug.Analytics)
CustomData ==
    {[label |-> Str("x")],
     [label |-> Str("x"), timestamp |-> Num(1), url |-> Str("https://other.example/")]}

\* a direct call Analytics.trackEvent('custom', data)
TrackCustom(t) ==
    /\ CanTrack(t)
    /\ \E data \in CustomData, writeOk \in BOOLEAN :
          Commit(Track(Current, t, "custom", data, writeOk))
    /\ UNCHANGED <<now, loads, prefersDark, reducedMotion, dom>>

\* the link cards a click may reach: those of the grid, and one whose
\* data-category attribute is empty
ClickableCards ==
    LinkCards \cup {[href |-> Str("https://shop.example/"), category |-> Str(""),
                     title |-> Str("Shop"), position |-> Num(3)]}

\* the user clicks a link card of a page whose LinkProApp.init has run: the
\* click listener runs when setupEventListeners has registered it
CardClick(t) ==
    /\ tabs[t].phase \in {"failed", "ready"}
    /\ Len(tabs[t].events) < MaxEvents
    /\ \E card \in ClickableCards, writeOk \in BOOLEAN :
          LET category == IF Falsy(card.category) THEN Str("unknown")
                          ELSE card.category
              h == [op |-> "click", tab |-> t, category |-> card.category,
                    lenBefore |-> Len(tabs[t].events)]
          IN  IF tabs[t].phase = "ready"
              THEN CommitAs(trackLinkClick(Current, t, card, category, writeOk), h)
              ELSE CommitAs(Current, h)
    /\ UNCHANGED <<now, loads, prefersDark, reducedMotion, dom>>

\* time passes
Tick ==
    /\ now < MaxClock * TickMs
    /\ now' = now + TickMs
    /\ ret' = NoRet
    /\ handled' = NoHandler
    /\ UNCHANGED <<storage, tabs, loads, calls, lastWrite, prefersDark,
                   reducedMotion, dom>>

\* a call of Analytics.getSummary() (LinkProApp.getAnalytics)
GetSummary ==
    /\ \E readOk \in BOOLEAN :
          LET r == getSummary(storage, readOk)
          IN  ret' = [op |-> "getSummary", readOk |-> readOk,
                      raised |-> r.raised, value |-> r.value]
    /\ UNCHANGED <<storage, tabs, now, loads, calls, lastWrite, prefersDark,
                   reducedMotion, dom, handled>>

\* (variant: the export of the in-memory sequence of the calling page)
ExportAnalytics_FromMemory ==
    /\ \E readOk \in BOOLEAN, t \in Tabs :
          ret' = [op |-> "exportAnalytics", readOk |-> readOk, raised |-> FALSE,
                  value |-> JSONstringify(Arr(tabs[t].events))]
    /\ UNCHANGED <<storage, tabs, now, loads, calls, lastWrite, prefersDark,
                   reducedMotion, dom, handled>>

\* a call of LinkProApp.exportAnalytics()
ExportAnalytics ==
    /\ \E readOk \in BOOLEAN :
          LET r == exportAnalytics(storage, readOk)
          IN  ret' = [op |-> "exportAnalytics", readOk |-> readOk,
                      raised |-> r.raised, value |-> r.value]
    /\ UNCHANGED <<storage, tabs, now, loads, calls, lastWrite, prefersDark,
                   reducedMotion, dom, handled>>

\* a call of Analytics.loadFromStorage()
LoadFromStorage ==
    /\ \E readOk \in BOOLEAN :
          LET r == loadFromStorage(storage, readOk)
          IN  ret' = [op |-> "loadFromStorage", readOk |-> readOk,
                      raised |-> r.raised, value |-> r.value]
    /\ UNCHANGED <<storage, tabs, now, loads, calls, lastWrite, prefersDark,
                   reducedMotion, dom, handled>>

\* a document whose .stat-number elements carry no data-target
NoTargets == [e \in StatElements |-> Undefined]

Init ==
    /\ storage = [k \in {trackingKey, themeKey} |-> Null]
    /\ tabs = [t \in Tabs |-> ClosedTab]
    /\ now = 0
    /\ loads = 0
    /\ calls = [t \in Tabs |-> <<>>]
    /\ lastWrite = NoWrite
    /\ ret = NoRet
    /\ prefersDark = FALSE
    /\ reducedMotion = FALSE
    /\ dom = NoTargets
    /\ handled = NoHandler

\* Two tabs share the storage.  A handler runs to completion within its tab; a
\* write of the other tab between the two writes of PageLoad would be
\* overwritten by the second, so taking the handler as one step loses no
\* final state.
Next ==
    \/ \E t \in Tabs : PageLoad(t)
    \/ \E t \in Tabs : LinkClick(t)
    \/ \E t \in Tabs : VisibilityChange(t)
    \/ \E t \in Tabs : BeforeUnload(t)
    \/ Tick

Spec == Init /\ [][Next]_vars

\* One tab alone, with getSummary called at any moment.
NextOneTab ==
    \/ PageLoad("tabA")
    \/ LinkClick("tabA")
    \/ VisibilityChange("tabA")
    \/ BeforeUnload("tabA")
    \/ Tick
    \/ GetSummary

SpecOneTab == Init /\ [][NextOneTab]_vars

\* the theme preferences a page may find stored
StoredThemes == {Null, PlainText("light"), PlainText("dark"), PlainText("system")}

InitPage ==
    /\ storage \in {[k \in {trackingKey, themeKey} |->
                        IF k = themeKey THEN theme ELSE Null] : theme \in StoredThemes}
    /\ tabs = [t \in Tabs |-> ClosedTab]
    /\ now = 0
    /\ loads = 0
    /\ calls = [t \in Tabs |-> <<>>]
    /\ lastWrite = NoWrite
    /\ ret = NoRet
    /\ prefersDark \in BOOLEAN
    /\ reducedMotion = FALSE
    /\ dom = NoTargets
    /\ handled = NoHandler

\* One tab and the theme: the page finds any stored preference and any OS
\* color scheme, the toggle is clicked and the OS color scheme changes.
NextTheme ==
    \/ PageLoad("tabA")
    \/ ThemeToggle("tabA")
    \/ SystemThemeChange
    \/ BeforeUnload("tabA")

SpecTheme == InitPage /\ [][NextTheme]_vars

\* what another script of the origin, or the user, may have left under the key
ForeignThemes == {PlainText("sepia"), PlainText("")}

InitAnyTheme ==
    /\ storage \in {[k \in {trackingKey, themeKey} |->
                        IF k = themeKey THEN theme ELSE Null] :
                     theme \in StoredThemes \cup ForeignThemes}
    /\ tabs = [t \in Tabs |-> ClosedTab]
    /\ now = 0
    /\ loads = 0
    /\ calls = [t \in Tabs |-> <<>>]
    /\ lastWrite = NoWrite
    /\ ret = NoRet
    /\ prefersDark \in BOOLEAN
    /\ reducedMotion = FALSE
    /\ dom = NoTargets
    /\ handled = NoHandler

\* One tab and the theme, the key holding any string at the start.
SpecThemeStore == InitAnyTheme /\ [][NextTheme]_vars

\* a page load during which localStorage.getItem works
PageLoadStorageWorks(t) == PageLoad(t) /\ handled'.themeReadOk

\* a click on the toggle during which localStorage.setItem works
ThemeToggleStorageWorks(t) == ThemeToggle(t) /\ ~handled'.raised

\* One tab and the theme while the storage works.
NextThemeStorageWorks ==
    \/ PageLoadStorageWorks("tabA")
    \/ ThemeToggleStorageWorks("tabA")
    \/ SystemThemeChange
    \/ BeforeUnload("tabA")

SpecThemeStorageWorks == InitAnyTheme /\ [][NextThemeStorageWorks]_vars

\* One tab from the evaluation of the script to the unload of the page: the
\* two ways of the bootstrap, and errors reported to the window at any moment.
NextBoot ==
    \/ PageLoad("tabA")
    \/ ScriptLoading("tabA")
    \/ DOMContentLoaded("tabA")
    \/ LinkClick("tabA")
    \/ WindowError("tabA")
    \/ UnhandledRejection("tabA")
    \/ BeforeUnload("tabA")
    \/ Tick

SpecBoot == Init /\ [][NextBoot]_vars

\* One tab and the start-up of the application, with the timeout of the error
\* notice.
NextStartup ==
    \/ PageLoad("tabA")
    \/ ScriptLoading("tabA")
    \/ DOMContentLoaded("tabA")
    \/ NoticeTimeout("tabA")
    \/ WindowError("tabA")
    \/ BeforeUnload("tabA")

SpecStartup == Init /\ [][NextStartup]_vars

Target(chars) == Chars(chars)

\* documents whose counters end at their first tick or never start
QuickTargets ==
    {[e \in StatElements |-> IF e = "stat-1" THEN Target(<<"0">>)
                             ELSE Target(<<"a", "b", "c">>)]}

\* documents with one counter to animate: 1000, 7, 12 (from '12px'); the other
\* .stat-number carries no number
CounterTargets ==
    {[e \in StatElements |-> IF e = "stat-1" THEN Target(<<"1", "0", "0", "0">>)
                             ELSE Target(<<"a", "b", "c">>)],
     [e \in StatElements |-> IF e = "stat-1" THEN Target(<<"7">>)
                             ELSE Undefined],
     [e \in StatElements |-> IF e = "stat-1" THEN Target(<<>>)
                             ELSE Target(<<"1", "2", "p", "x">>)]}

InitAnimations(documents) ==
    /\ storage = [k \in {trackingKey, themeKey} |-> Null]
    /\ tabs = [t \in Tabs |-> ClosedTab]
    /\ now = 0
    /\ loads = 0
    /\ calls = [t \in Tabs |-> <<>>]
    /\ lastWrite = NoWrite
    /\ ret = NoRet
    /\ prefersDark = FALSE
    /\ reducedMotion \in BOOLEAN
    /\ dom \in documents
    /\ handled = NoHandler

\* One tab and the three animation triggers, under either reduced-motion
\* preference at start-up and with the preference changing later.
NextMotion ==
    \/ PageLoad("tabA")
    \/ ReducedMotionChange
    \/ RevealIntersect("tabA")
    \/ StatIntersect("tabA")
    \/ StatTimer("tabA")
    \/ Scroll("tabA")
    \/ ScrollTimeout("tabA")
    \/ AnimationFrame("tabA")

SpecMotion == InitAnimations(QuickTargets) /\ [][NextMotion]_vars

\* One tab and the scroll listener; a timeout that is due fires and a frame
\* that is requested is rendered.
NextScroll ==
    \/ PageLoad("tabA")
    \/ Scroll("tabA")
    \/ ScrollTimeout("tabA")
    \/ AnimationFrame("tabA")

SpecScroll ==
    /\ InitAnimations(QuickTargets)
    /\ [][NextScroll]_vars
    /\ WF_vars(ScrollTimeout("tabA"))
    /\ WF_vars(AnimationFrame("tabA"))

\* One tab and the observers of its reveal elements and images, over two
\* loads of the page.
NextImages ==
    \/ PageLoad("tabA")
    \/ RevealIntersect("tabA")
    \/ ImageIntersect("tabA")
    \/ BeforeUnload("tabA")

SpecImages == Init /\ [][NextImages]_vars

\* One tab and the counters, from the first intersection to the end of the
\* animation.
NextCounter ==
    \/ PageLoad("tabA")
    \/ StatIntersect("tabA")
    \/ StatTimer("tabA")

SpecCounter == InitAnimations(CounterTargets) /\ [][NextCounter]_vars

\* One tab with the calls made through the debugging handles: trackEvent with
\* data of the caller's, getSummary and exportAnalytics.
NextApi ==
    \/ PageLoad("tabA")
    \/ LinkClick("tabA")
    \/ TrackCustom("tabA")
    \/ BeforeUnload("tabA")
    \/ Tick
    \/ GetSummary
    \/ ExportAnalytics

SpecApi == Init /\ [][NextApi]_vars

\* One tab, the clicks on its link cards and the summary.
NextClicks ==
    \/ PageLoad("tabA")
    \/ CardClick("tabA")
    \/ BeforeUnload("tabA")
    \/ GetSummary

SpecClicks == Init /\ [][NextClicks]_vars

(***************************************************************************)
(* The read operations on an arbitrary stored value: whatever an earlier   *)
(* session, another script of the origin or the user left under the key.   *)
(***************************************************************************)
StoredEvent(eventName, data) ==
    Obj([id |-> Str("linkpro_0"), sessionId |-> generateSessionId(0), name |-> Str(eventName),
         data |-> Obj(data)])

WellFormedEvents ==
    {StoredEvent("link_click", [category |-> Str(c)]) :
        c \in {"music", "social", "constructor"}}
    \cup {StoredEvent("session_end", [duration |-> Num(d)]) :
        d \in {0, 499, 500, 1500, 2000}}
    \cup {StoredEvent("page_view", NoProps)}

MalformedEvents ==
    {Null,
     Obj([name |-> Str("link_click")]),
     StoredEvent("session_end", NoProps)}

Logs(alphabet) == UNION {[1..n -> alphabet] : n \in 0..MaxLog}

StoredItems ==
    {Null, PlainText(""), PlainText("not json"),
     JsonText(Null), JsonText(Obj(NoProps)), JsonText(Num(0))}
    \cup {JsonText(Arr(log)) : log \in Logs(WellFormedEvents \cup MalformedEvents)}

InitStored ==
    /\ storage \in {[k \in {trackingKey, themeKey} |->
                        IF k = trackingKey THEN item ELSE Null] : item \in StoredItems}
    /\ tabs = [t \in Tabs |-> ClosedTab]
    /\ now = 0
    /\ loads = 0
    /\ calls = [t \in Tabs |-> <<>>]
    /\ lastWrite = NoWrite
    /\ ret = NoRet
    /\ prefersDark = FALSE
    /\ reducedMotion = FALSE
    /\ dom = NoTargets
    /\ handled = NoHandler

NextStored == GetSummary \/ ExportAnalytics \/ LoadFromStorage

SpecStored == InitStored /\ [][NextStored]_vars

(***************************************************************************)
(* Properties of the event log                                             *)
(***************************************************************************)
\* the log held under the key (what the script itself writes is a JSON array)
Persisted ==
    IF storage[trackingKey] = Null THEN <<>> ELSE storage[trackingKey].doc.items

\* what a sequence of in-memory events reads back as
Serialized(events) == ToJSON(Arr(events)).items

IsPrefix(a, b) ==
    /\ Len(a) <= Len(b)
    /\ \A i \in 1..Len(a) : a[i] = b[i]

\* a stored entry is the event of a given call: its name, its session and the
\* caller's defined fields other than the injected ones
EntryOfCall(entry, call, sessionId) ==
    /\ entry.t = "object"
    /\ entry.props.name = Str(call.name)
    /\ entry.props.sessionId = sessionId
    /\ \A k \in DOMAIN call.data :
          (k \notin {"timestamp", "url"} /\ call.data[k] # Undefined)
             => /\ k \in DOMAIN entry.props.data.props
                /\ entry.props.data.props[k] = call.data[k]

\* the log holds one entry per call of tab t's session, in call order
LogOfSession(t) ==
    /\ Len(Persisted) = Len(calls[t])
    /\ \A i \in 1..Len(calls[t]) :
          EntryOfCall(Persisted[i], calls[t][i], tabs[t].sessionId)

\* C1 (as stated): after the Nth trackEvent call of a session returns, the
\* persisted log has exactly N entries, in call order, each carrying the
\* session's sessionId.
C1_LogAfterEveryCall ==
    lastWrite.op = "trackEvent" => LogOfSession(lastWrite.tab)

\* C1 (amended): after the Nth trackEvent call of a session returns, if the
\* storage write of that call succeeded, the persisted log has exactly N
\* entries, in call order, each carrying the session's sessionId.
C1_LogAfterSuccessfulCall ==
    (lastWrite.op = "trackEvent" /\ lastWrite.ok) => LogOfSession(lastWrite.tab)

C1_Witness ==
    /\ lastWrite.op = "trackEvent"
    /\ lastWrite.ok
    /\ lastWrite.name = "session_end"
    /\ Len(calls[lastWrite.tab]) = 4
    /\ \E i \in 1..4 : calls[lastWrite.tab][i].name = "link_click"

\* C2: the persisted log only grows: every step leaves a log that has the
\* previous persisted log as a prefix, across page loads and trackEvent calls.
C2_LogOnlyGrows == [][IsPrefix(Persisted, Persisted')]_vars

C4_LogIsWritersMemory ==
    lastWrite.writer # "none" =>
        Persisted = Serialized(tabs[lastWrite.writer].events)

\* C4 (amended): the persisted log equals the in-memory sequence, as it stood at
\* that write, of the tab that performed the most recent successful write: it
\* holds the events that tab had then, all of that tab's session and none of the
\* other tab's, and it is the tab's whole in-memory sequence when the most
\* recent trackEvent call wrote successfully.
C4_LastWriterWins ==
    lastWrite.writer # "none" =>
        LET w == lastWrite.writer
        IN  /\ Len(Persisted) = lastWrite.writerLen
            /\ \A i \in 1..Len(Persisted) :
                  Persisted[i].props.sessionId = lastWrite.writerSession
            /\ tabs[w].sessionId = lastWrite.writerSession =>
                  Persisted = Serialized(SubSeq(tabs[w].events, 1, lastWrite.writerLen))
            /\ lastWrite.ok => Persisted = Serialized(tabs[w].events)

C4_Witness ==
    /\ lastWrite.writer = "tabB"
    /\ lastWrite.tab = "tabB"
    /\ lastWrite.ok
    /\ tabs["tabA"].phase = "ready"
    /\ Len(tabs["tabA"].events) = 3
    /\ Len(tabs["tabB"].events) = 3

ClickCalls(t) == SelectSeq(calls[t], LAMBDA c : c.name = "link_click")

\* the state of the scenario: a page load, then one click on a link card of
\* category "music" (and any other events), every event written, then getSummary
MusicScenario ==
    /\ ret.op = "getSummary"
    /\ ret.readOk
    /\ lastWrite.op = "trackEvent"
    /\ lastWrite.ok
    /\ Len(ClickCalls(lastWrite.tab)) = 1
    /\ ClickCalls(lastWrite.tab)[1].data.category = Str("music")

\* C5: after a page load, which records page_view exactly once, and one click
\* on a link card of category "music", getSummary returns categories =
\* {music: 1} and totalClicks = 1.
C5_MusicScenario ==
    MusicScenario =>
        /\ ~ret.raised
        /\ ret.value.props.categories = Obj([music |-> Num(1)])
        /\ ret.value.props.totalClicks = Num(1)
        /\ Len(SelectSeq(Persisted, LAMBDA e : e.props.name = Str("page_view"))) = 1
        /\ Persisted[1].props.name = Str("page_view")

C5_Witness == MusicScenario /\ ~ret.raised

(***************************************************************************)
(* Properties of the read operations                                       *)
(***************************************************************************)
StoredItem == storage[trackingKey]

\* the key holds a JSON array of well-formed events
WellFormedLog ==
    /\ StoredItem.t = "string"
    /\ StoredItem.json
    /\ StoredItem.doc.t = "array"
    /\ \A i \in DOMAIN StoredItem.doc.items :
          StoredItem.doc.items[i] \in WellFormedEvents

\* positions of the stored events of a given name
Named(log, eventName) ==
    {i \in DOMAIN log : log[i].props.name = Str(eventName)}

\* positions of the stored link_click events of a given category
ClicksIn(log, category) ==
    {i \in Named(log, "link_click") : log[i].props.data.props.category = Str(category)}

\* a summary was just computed from a readable well-formed log
SummaryOfWellFormedLog ==
    /\ ret.op = "getSummary"
    /\ ret.readOk
    /\ WellFormedLog

\* C6: the categories mapping of getSummary holds, for each category, exactly
\* the number of stored link_click events carrying it, and no other key.
C6_CategoryCounts ==
    SummaryOfWellFormedLog =>
        LET log == StoredItem.doc.items
            carried == {log[i].props.data.props.category.v : i \in Named(log, "link_click")}
        IN  /\ ~ret.raised
            /\ ret.value.props.categories.t = "object"
            /\ DOMAIN ret.value.props.categories.props = carried
            /\ \A c \in carried :
                  ret.value.props.categories.props[c] = Num(Cardinality(ClicksIn(log, c)))

\* C7: on an absent or empty stored log getSummary returns totalEvents = 0,
\* totalClicks = 0, no category and averageSessionTime = 0.
C7_EmptyLogSummary ==
    (ret.op = "getSummary" /\ StoredItem \in {Null, JsonText(EmptyArray)}) =>
        /\ ~ret.raised
        /\ ret.value = Obj([totalEvents |-> Num(0),
                            totalClicks |-> Num(0),
                            categories |-> Obj(NoProps),
                            averageSessionTime |-> Num(0)])

C7_Witness ==
    /\ ret.op = "getSummary"
    /\ ret.readOk
    /\ StoredItem = JsonText(EmptyArray)
    /\ ~ret.raised

RECURSIVE TotalDuration(_)
TotalDuration(log) ==
    IF log = <<>> THEN 0
    ELSE (IF Head(log).props.name = Str("session_end")
          THEN Head(log).props.data.props.duration.v ELSE 0)
         + TotalDuration(Tail(log))

\* C8: averageSessionTime is the sum of the durations of the stored session_end
\* events divided by their number, in seconds, rounded to the nearest whole
\* number (a half rounds up); it is 0 when there is no session_end event.
C8_AverageSessionTime ==
    SummaryOfWellFormedLog =>
        LET log == StoredItem.doc.items
            n == Cardinality(Named(log, "session_end"))
            total == TotalDuration(log)
            average == ret.value.props.averageSessionTime
        IN  /\ ~ret.raised
            /\ average.t = "number"
            /\ n = 0 => average.v = 0
            /\ n > 0 => /\ (2 * average.v - 1) * 1000 * n <= 2 * total
                        /\ 2 * total < (2 * average.v + 1) * 1000 * n

\* two sessions of 500 ms: an average of half a second, rendered as 1
C8_Witness ==
    /\ SummaryOfWellFormedLog
    /\ Cardinality(Named(StoredItem.doc.items, "session_end")) = 2
    /\ TotalDuration(StoredItem.doc.items) = 1000
    /\ ret.value.props.averageSessionTime = Num(1)

\* C9: getSummary and exportAnalytics raise no error to their caller, whatever
\* value the key holds.
C9_ReadsNeverRaise ==
    ret.op \in {"getSummary", "exportAnalytics"} => ~ret.raised

\* C10: loadFromStorage never raises; it returns the empty sequence when the key
\* is absent or the stored value does not parse, and the parsed stored value
\* otherwise.
C10_LoadFromStorage ==
    ret.op = "loadFromStorage" =>
        /\ ~ret.raised
        /\ ret.readOk =>
              ret.value = IF StoredItem = Null \/ ~StoredItem.json THEN EmptyArray
                          ELSE StoredItem.doc
        /\ ~ret.readOk => ret.value = EmptyArray

C10_Witness ==
    /\ ret.op = "loadFromStorage"
    /\ ret.readOk
    /\ StoredItem = PlainText("not json")
    /\ ret.value = EmptyArray

(***************************************************************************)
(* Properties of the theme                                                 *)
(***************************************************************************)
StoredTheme == storage[themeKey]

LastEvent(t) == tabs[t].events[Len(tabs[t].events)]

\* the toggle was just clicked in a page whose state was 'system'
FirstToggleFromSystem ==
    /\ handled.op = "toggle"
    /\ handled.before.currentTheme = Str("system")

\* an OS color-scheme change leaves the displayed theme of a page that was
\* toggled as it is
ToggledPageKeepsTheme ==
    \A t \in Tabs :
        (/\ tabs[t].toggles > 0
         /\ tabs'[t].phase = tabs[t].phase
         /\ prefersDark' # prefersDark) => tabs'[t].dataTheme = tabs[t].dataTheme

\* C11 (as stated): the first toggle from the system state yields the same
\* explicit value ('light') under either OS preference, that value is persisted
\* under 'linkpro_theme', and a later OS preference change leaves data-theme
\* unchanged.
C11_FirstToggle ==
    [][/\ FirstToggleFromSystem' =>
            /\ tabs'[handled'.tab].currentTheme = Str("light")
            /\ StoredTheme' = PlainText("light")
       /\ ToggledPageKeepsTheme]_vars

\* C11 (amended): the first toggle from the system state yields the same
\* explicit value ('light') under either OS preference, that value is persisted
\* under 'linkpro_theme' if the storage write succeeds, and a later OS preference
\* change leaves data-theme unchanged.
C11_FirstTogglePersistedIfWritten ==
    [][/\ FirstToggleFromSystem' =>
            /\ tabs'[handled'.tab].currentTheme = Str("light")
            /\ handled'.themeWriteOk => StoredTheme' = PlainText("light")
       /\ ToggledPageKeepsTheme]_vars

\* the first toggle of a page that followed a dark OS preference
C11_Witness ==
    /\ FirstToggleFromSystem
    /\ handled.themeWriteOk
    /\ prefersDark
    /\ handled.before.dataTheme = Str("dark")
    /\ tabs[handled.tab].dataTheme = Str("light")
    /\ StoredTheme = PlainText("light")

\* a page that has been toggled is in state light or dark, and a toggle moves
\* light to dark and dark to light
TogglesFlip ==
    /\ \A t \in Tabs :
          tabs[t].toggles > 0 => tabs[t].currentTheme \in {Str("light"), Str("dark")}
    /\ handled.op = "toggle" =>
          /\ handled.before.currentTheme = Str("light") =>
                tabs[handled.tab].currentTheme = Str("dark")
          /\ handled.before.currentTheme = Str("dark") =>
                tabs[handled.tab].currentTheme = Str("light")

\* C12 (as stated): after any toggle the theme state is light or dark and never
\* system again, light goes to dark and dark to light, and after each toggle
\* the persisted preference equals the new in-memory state.
C12_ToggleFlipsAndPersists ==
    /\ TogglesFlip
    /\ handled.op = "toggle" =>
          StoredTheme = PlainText(tabs[handled.tab].currentTheme.v)

\* C12 (amended): after any toggle the theme state is light or dark and never
\* system again, light goes to dark and dark to light, and after each toggle
\* whose storage write succeeded the persisted preference equals the new
\* in-memory state.
C12_ToggleFlipsAndPersistsIfWritten ==
    /\ TogglesFlip
    /\ (handled.op = "toggle" /\ handled.themeWriteOk) =>
          StoredTheme = PlainText(tabs[handled.tab].currentTheme.v)

\* the second toggle of a page, from light back to dark
C12_Witness ==
    /\ handled.op = "toggle"
    /\ handled.themeWriteOk
    /\ handled.before.toggles = 1
    /\ handled.before.currentTheme = Str("light")
    /\ StoredTheme = PlainText("dark")

\* C13: while the theme state is system, an OS color-scheme change makes
\* data-theme the new OS preference and leaves the in-memory theme state, the
\* persisted preference and the event log unchanged.
C13_SystemThemeFollowsOS ==
    [][\A t \in Tabs :
          (/\ prefersDark' # prefersDark
           /\ tabs[t].phase = "ready"
           /\ tabs[t].currentTheme = Str("system")) =>
              /\ tabs'[t].dataTheme = IF prefersDark' THEN Str("dark") ELSE Str("light")
              /\ tabs'[t].currentTheme = Str("system")
              /\ storage' = storage
              /\ tabs'[t].events = tabs[t].events
              /\ calls' = calls]_vars

C13_Witness ==
    /\ handled.op = "systemTheme"
    /\ handled.before["tabA"].phase = "ready"
    /\ handled.before["tabA"].currentTheme = Str("system")
    /\ handled.before["tabA"].dataTheme = Str("light")
    /\ tabs["tabA"].dataTheme = Str("dark")

\* the toggle just clicked has appended one theme_change event whose theme
\* field is the state reached
ToggleRecorded ==
    LET t == handled.tab
    IN  /\ Len(tabs[t].events) = Len(handled.before.events) + 1
        /\ LastEvent(t).props.name = Str("theme_change")
        /\ LastEvent(t).props.data.props.theme = tabs[t].currentTheme

\* C14: every explicit theme toggle appends exactly one theme_change event to
\* the event log, whose theme field is the state reached by that toggle.
C14_ToggleRecorded ==
    handled.op = "toggle" => ToggleRecorded

\* C15: a storage failure on the theme preference key is never fatal: when the
\* read throws at start-up, initialization completes with state system; when
\* the write throws during a toggle, the new theme is applied to the page and
\* the theme_change event is recorded.
C15_ThemeStorageFailureNotFatal ==
    /\ (handled.op = "init" /\ ~handled.themeReadOk) =>
          /\ tabs[handled.tab].phase = "ready"
          /\ tabs[handled.tab].currentTheme = Str("system")
    /\ (handled.op = "toggle" /\ ~handled.themeWriteOk) =>
          /\ tabs[handled.tab].dataTheme = tabs[handled.tab].currentTheme
          /\ ToggleRecorded

(***************************************************************************)
(* Properties of the session                                               *)
(***************************************************************************)
\* positions of the in-memory events of a given name
NamedInMemory(t, eventName) ==
    {i \in DOMAIN tabs[t].events : tabs[t].events[i].props.name = Str(eventName)}

\* C16: every session's in-memory sequence contains at most one session_end
\* event, whose duration is the time of its recording minus startTime and whose
\* eventsCount is the size of the sequence when it was recorded.
C16_SessionEndOnce ==
    \A t \in Tabs :
        /\ Cardinality(NamedInMemory(t, "session_end")) <= 1
        /\ \A i \in NamedInMemory(t, "session_end") :
              LET data == tabs[t].events[i].props.data.props
              IN  /\ data.duration = Num(data.timestamp.v - tabs[t].startTime.v)
                  /\ data.eventsCount = Num(i - 1)

\* C17: the session_end event is the last event of its session's in-memory
\* sequence when it is recorded; if its write fails, the persisted value is
\* left as it was and the last event of the persisted log is the last event of
\* the most recent successful write.
C17_SessionEndIsLast ==
    (lastWrite.op = "trackEvent" /\ lastWrite.name = "session_end") =>
        /\ LastEvent(lastWrite.tab).props.name = Str("session_end")
        /\ Len(tabs[lastWrite.tab].events) = lastWrite.lenBefore + 1
        /\ ~lastWrite.ok =>
              /\ storage = lastWrite.before
              /\ lastWrite.writer = "none" => Persisted = <<>>
              /\ lastWrite.writer # "none" =>
                    /\ Persisted # <<>>
                    /\ Persisted[Len(Persisted)] = lastWrite.writerLast

\* a session_end whose write fails after a click whose write succeeded
C17_Witness ==
    /\ lastWrite.op = "trackEvent"
    /\ lastWrite.name = "session_end"
    /\ ~lastWrite.ok
    /\ lastWrite.writer = lastWrite.tab
    /\ Len(Persisted) = 3
    /\ Persisted[3].props.name = Str("link_click")
    /\ Len(tabs[lastWrite.tab].events) = 4

\* the page has a session: Analytics.init has run
HasSession(t) == tabs[t].phase \in {"failed", "ready"}

\* C18: the session is created once per page load, on either way of the
\* bootstrap: no session exists before LinkProApp.init, sessionId and startTime
\* are set by it and never change while the page lives, and every event of the
\* in-memory sequence carries that sessionId.
C18_SessionCreatedOnce ==
    [][\A t \in Tabs :
          /\ tabs'[t].phase = "loading" =>
                /\ tabs'[t].sessionId = Undefined
                /\ tabs'[t].events = <<>>
          /\ HasSession(t)' =>
                /\ tabs'[t].sessionId = generateSessionId(tabs'[t].load)
                /\ tabs'[t].startTime.t = "number"
                /\ \A i \in DOMAIN tabs'[t].events :
                      tabs'[t].events[i].props.sessionId = tabs'[t].sessionId
          /\ (HasSession(t) /\ tabs'[t].load = tabs[t].load) =>
                /\ tabs'[t].sessionId = tabs[t].sessionId
                /\ tabs'[t].startTime = tabs[t].startTime]_vars

\* a session started from DOMContentLoaded, with events recorded later on
C18_Witness ==
    /\ tabs["tabA"].phase = "ready"
    /\ tabs["tabA"].deferred
    /\ Len(tabs["tabA"].events) = 4
    /\ now > tabs["tabA"].startTime.v

\* C19: in every session the first event of the in-memory sequence is
\* page_view, and the sequence contains exactly one page_view.
C19_PageViewFirst ==
    \A t \in Tabs :
        tabs[t].inited =>
            /\ tabs[t].events # <<>>
            /\ tabs[t].events[1].props.name = Str("page_view")
            /\ NamedInMemory(t, "page_view") = {1}

\* a session whose initialization failed after Analytics.init
C19_Witness ==
    /\ tabs["tabA"].phase = "failed"
    /\ Len(tabs["tabA"].events) = 3
    /\ NamedInMemory("tabA", "page_view") = {1}

\* C20: every uncaught error and unhandled rejection delivered to the
\* window-level handlers is recorded as an analytics event, one per listener
\* that runs, and no listener throws.
C20_WindowErrorsRecorded ==
    handled.op \in {"error", "unhandledrejection"} =>
        /\ ~handled.raised
        /\ Len(tabs[handled.tab].events) = Len(handled.before.events) + handled.listeners
        /\ LastEvent(handled.tab).props.name \in
              {Str("error"), Str("global_error"), Str("promise_rejection")}

(***************************************************************************)
(* Properties of the start-up                                              *)
(***************************************************************************)
\* the page of tab t lives on through the step
SamePage(t) == tabs'[t].load = tabs[t].load /\ tabs'[t].phase # "closed"

\* what LinkProApp.init leaves: after a failure, no flag, no app_initialized
\* event and a notice that is shown exactly while its removal is pending; the
\* flag only with the theme resolved, the animations set up or skipped, and no
\* notice
StartupOutcome(t) ==
    /\ tabs[t].phase = "failed" =>
          /\ ~tabs[t].isInitialized
          /\ NamedInMemory(t, "app_initialized") = {}
          /\ tabs[t].noticeShown = tabs[t].noticeTimer
    /\ (tabs[t].phase = "ready" \/ tabs[t].isInitialized) =>
          /\ tabs[t].isInitialized
          /\ tabs[t].phase \in {"ready", "closed"}
          /\ tabs[t].currentTheme # Undefined
          /\ tabs[t].reducedClass \/ tabs[t].scroll.listening
          /\ ~tabs[t].noticeShown
    /\ (handled.op = "init" /\ handled.tab = t /\ ~handled.themeReadOk) =>
          /\ tabs[t].phase = "failed"
          /\ tabs[t].noticeShown

\* C21: when a step of the start-up wiring throws, LinkProApp.init ends
\* normally with isInitialized false, no app_initialized event and an error
\* notice on the page, which the timeout removes; isInitialized is true only if
\* every module init and the listener setup completed.
C21_StartupFailureContained ==
    [][\A t \in Tabs :
          /\ StartupOutcome(t)'
          /\ (SamePage(t) /\ tabs[t].noticeTimer /\ ~tabs'[t].noticeTimer) =>
                ~tabs'[t].noticeShown
          /\ (SamePage(t) /\ tabs[t].noticeShown /\ ~tabs'[t].noticeShown) =>
                tabs[t].noticeTimer]_vars

\* the notice of a failed start-up has been removed, and the page still records
C21_Witness ==
    /\ tabs["tabA"].phase = "failed"
    /\ ~tabs["tabA"].noticeShown
    /\ ~tabs["tabA"].noticeTimer
    /\ Len(tabs["tabA"].events) = 2

(***************************************************************************)
(* Properties of the animations                                            *)
(***************************************************************************)
\* C22: across any sequence of intersection callbacks each reveal element is
\* marked animate-in at most once, is unobserved from that moment, and the mark
\* is never removed.
C22_RevealOnce ==
    [][\A t \in Tabs : \A e \in RevealElements :
          /\ tabs'[t].reveal[e].fired <= 1
          /\ tabs'[t].reveal[e].in = (tabs'[t].reveal[e].fired = 1)
          /\ tabs'[t].reveal[e].in => ~tabs'[t].reveal[e].observed
          /\ (SamePage(t) /\ tabs[t].reveal[e].in) => tabs'[t].reveal[e].in]_vars

\* one element revealed, the callback called again for another one
C22_Witness ==
    /\ tabs["tabA"].reveal["link-card-1"].in
    /\ tabs["tabA"].reveal["links-group"].in
    /\ tabs["tabA"].reveal["link-card-2"].observed
    /\ ~tabs["tabA"].reveal["link-card-2"].in
    /\ tabs["tabA"].scroll.header # Null

\* C23: for a positive target the counter animation ends after at most
\* Steps + 1 ticks with the rendered value exactly the target and the timer
\* cancelled, and no rendered value exceeds the target.
C23_CounterTerminates ==
    \A t \in Tabs : \A e \in StatElements :
        LET stat == tabs[t].stats[e]
        IN  (stat.timers > 0 /\ stat.target > 0) =>
                /\ stat.ticks <= Steps + 1
                /\ stat.ticks = Steps + 1 => ~stat.running
                /\ stat.text # Null => stat.text.v <= stat.target
                /\ ~stat.running => stat.text = Num(stat.target)
                /\ stat.running => stat.ticks <= Steps

\* the counter of target 1000 has ended, on its 125th tick
C23_Witness ==
    LET stat == tabs["tabA"].stats["stat-1"]
    IN  /\ stat.timers = 1
        /\ stat.target = 1000
        /\ stat.ticks = Steps
        /\ ~stat.running
        /\ stat.text = Num(1000)

\* no trigger is registered and nothing has been animated
NothingAnimated(page) ==
    /\ \A e \in RevealElements :
          page.reveal[e] = PlainReveal
    /\ \A e \in StatElements :
          page.stats[e] = PlainStat
    /\ ~page.scroll.listening
    /\ page.scroll.header = Null
    /\ page.scroll.raf = 0

\* all three triggers are registered: every reveal element is marked
\* animate-ready and is observed until it is revealed, every counter is observed
\* until its animation starts, and the scroll listener is attached
AllActive(page) ==
    /\ \A e \in RevealElements :
          page.reveal[e].ready /\ (page.reveal[e].observed # page.reveal[e].in)
    /\ \A e \in StatElements :
          page.stats[e].observed = (page.stats[e].timers = 0)
    /\ page.scroll.listening

\* C24: a page whose Animations.init ran with the reduced-motion preference set
\* never registers a trigger nor animates anything, whatever the preference
\* becomes; a page whose Animations.init ran without it keeps all three
\* triggers, whatever the preference becomes.
C24_ReducedMotionGate ==
    [][\A t \in Tabs :
          /\ (tabs'[t].phase \in {"failed", "ready"} /\ tabs'[t].reducedClass) =>
                NothingAnimated(tabs'[t])
          /\ (tabs'[t].phase \in {"failed", "ready"} /\ ~tabs'[t].reducedClass) =>
                AllActive(tabs'[t])
          /\ (tabs[t].phase = "closed" /\ tabs'[t].phase \in {"failed", "ready"}) =>
                tabs'[t].reducedClass = reducedMotion
          /\ reducedMotion' # reducedMotion => tabs' = tabs]_vars

\* loaded under reduced motion, the preference since turned off, the page
\* scrolled
C24_Witness ==
    /\ tabs["tabA"].phase = "ready"
    /\ tabs["tabA"].reducedClass
    /\ ~reducedMotion
    /\ tabs["tabA"].scroll.scrollY = 150

\* scrollY / 100 clamped to [0, 1], in hundredths
ClampedOpacity(scrollY) ==
    IF scrollY < 0 THEN 0 ELSE IF scrollY > 100 THEN 100 ELSE scrollY

\* C25: the opacity factor written to the header is scrollY / 100 clamped to
\* [0, 1] for every scroll offset, and at most one recomputation is pending, and
\* at most one is executed, per animation frame.
C25_ScrollOpacity ==
    [][\A t \in Tabs :
          /\ tabs'[t].scroll.raf <= 1
          /\ tabs'[t].scroll.ran <= 1
          /\ tabs'[t].scroll.header # tabs[t].scroll.header =>
                tabs'[t].scroll.header = Num(ClampedOpacity(tabs[t].scroll.scrollY))]_vars

(***************************************************************************)
(* Properties of the calls                                                 *)
(***************************************************************************)
\* C26: a call of getSummary or exportAnalytics leaves the persisted log, the
\* in-memory sequences and the session fields unchanged and records no event;
\* the export is the serialization of the persisted sequence.
C26_ReadsAreReadOnly ==
    [][ret'.op \in {"getSummary", "exportAnalytics"} =>
          /\ storage' = storage
          /\ tabs' = tabs
          /\ calls' = calls
          /\ (ret'.op = "exportAnalytics" /\ ret'.readOk) =>
                /\ ~ret'.raised
                /\ ret'.value = JsonText(Arr(Persisted))]_vars

\* an export while the in-memory sequence is ahead of the persisted log
C26_Witness ==
    /\ ret.op = "exportAnalytics"
    /\ ret.readOk
    /\ tabs["tabA"].phase = "ready"
    /\ Len(Persisted) = 2
    /\ Len(tabs["tabA"].events) = 3
    /\ ret.value = JsonText(Arr(Persisted))

\* C27: in a single tab, after any trackEvent call whose storage write
\* succeeded the persisted log equals the whole in-memory sequence, the events
\* whose own writes failed included.
C27_WriteMirrorsMemory ==
    (lastWrite.op = "trackEvent" /\ lastWrite.ok) =>
        /\ Persisted = Serialized(tabs[lastWrite.tab].events)
        /\ Len(Persisted) = lastWrite.lenBefore + 1

\* the successful write follows two writes of the session that failed
C27_Witness ==
    /\ lastWrite.op = "trackEvent"
    /\ lastWrite.ok
    /\ lastWrite.lenBefore = 2
    /\ lastWrite.before[trackingKey] # Null
    /\ Len(lastWrite.before[trackingKey].doc.items) = 1
    /\ lastWrite.before[trackingKey].doc.items[1].props.sessionId
          = tabs[lastWrite.tab].sessionId
    /\ Len(Persisted) = 3

\* C28: the data of every recorded event has the timestamp and the url of its
\* capture, also when the caller's data has fields of these names, and every
\* other field of the caller's data unchanged.
C28_InjectedFieldsWin ==
    [][\A t \in Tabs :
          /\ \A i \in DOMAIN tabs'[t].events :
                LET data == tabs'[t].events[i].props.data.props
                    given == calls'[t][i].data
                IN  /\ {"timestamp", "url"} \subseteq DOMAIN data
                    /\ data.timestamp.t = "number"
                    /\ data.url = Str(Href)
                    /\ DOMAIN data = DOMAIN given \cup {"timestamp", "url"}
                    /\ \A k \in DOMAIN given \ {"timestamp", "url"} :
                          data[k] = given[k]
          /\ (calls'[t] # calls[t] /\ tabs'[t].events # <<>>) =>
                LastEvent(t)'.props.data.props.timestamp = Num(now)]_vars

\* the caller's data carried a timestamp and a url of its own
C28_Witness ==
    /\ lastWrite.op = "trackEvent"
    /\ lastWrite.name = "custom"
    /\ now = TickMs
    /\ "timestamp" \in DOMAIN calls["tabA"][Len(calls["tabA"])].data
    /\ calls["tabA"][Len(calls["tabA"])].data.timestamp = Num(1)
    /\ LastEvent("tabA").props.data.props.timestamp = Num(TickMs)

\* C29: a counter element starts at most one timer; from the start of its
\* animation it is not observed; an element whose target is not a number never
\* animates and stays observed.
C29_OneTimerPerCounter ==
    \A t \in Tabs : \A e \in StatElements :
        LET stat == tabs[t].stats[e]
        IN  /\ stat.timers <= 1
            /\ stat.timers = 1 => ~stat.observed
            /\ parseInt(dom[e]) = NaN =>
                  /\ stat.timers = 0
                  /\ stat.text = Null
                  /\ (tabs[t].phase \in {"failed", "ready"} /\ ~tabs[t].reducedClass)
                        => stat.observed

\* the counter of '12px' has run to its end; the element without a number is
\* still observed
C29_Witness ==
    /\ tabs["tabA"].stats["stat-2"].timers = 1
    /\ tabs["tabA"].stats["stat-2"].target = 12
    /\ ~tabs["tabA"].stats["stat-2"].running
    /\ tabs["tabA"].stats["stat-1"].observed
    /\ tabs["tabA"].stats["stat-1"].timers = 0

\* C30: every rendered value of a counter animation is the floor of the
\* accumulated value (ticks * target / Steps, up to its rounding error, and the
\* target at the end), and for a non-negative target the rendered values do not
\* decrease from tick to tick.
C30_RenderedFloor ==
    [][\A t \in Tabs : \A e \in StatElements :
          LET stat == tabs'[t].stats[e]
          IN  (stat.timers > 0 /\ stat.target >= 0 /\ stat.text # Null) =>
                /\ stat.running =>
                      /\ stat.text.v * Steps <= stat.ticks * stat.target
                      /\ stat.ticks * stat.target <= (stat.text.v + 1) * Steps
                      /\ ~stat.below => stat.ticks * stat.target < (stat.text.v + 1) * Steps
                /\ ~stat.running => stat.text.v = stat.target
                /\ (SamePage(t) /\ tabs[t].stats[e].text # Null) =>
                      stat.text.v >= tabs[t].stats[e].text.v]_vars

\* the counter of target 7 in mid-course: 63 ticks make 3.528, rendered as 3
C30_Witness ==
    LET stat == tabs["tabA"].stats["stat-1"]
    IN  /\ stat.running
        /\ stat.target = 7
        /\ stat.ticks = 63
        /\ stat.text = Num(3)

(***************************************************************************)
(* Properties of the theme, continued                                      *)
(***************************************************************************)
\* the theme a state stands for under an OS color scheme
ResolvedTheme(theme, dark) ==
    IF theme = Str("system") THEN (IF dark THEN Str("dark") ELSE Str("light"))
    ELSE theme

\* C31: while the storage works, data-theme is the in-memory state when that
\* is light or dark and the OS color scheme when it is system, after any
\* toggles and changes of the OS color scheme.
C31_DisplayedThemeResolved ==
    \A t \in Tabs :
        (tabs[t].phase = "ready"
            /\ tabs[t].currentTheme \in {Str("light"), Str("dark"), Str("system")}) =>
                tabs[t].dataTheme = ResolvedTheme(tabs[t].currentTheme, prefersDark)

\* the toggle left the system state, and the OS color scheme then turned dark
C31_Witness ==
    /\ tabs["tabA"].phase = "ready"
    /\ tabs["tabA"].currentTheme = Str("light")
    /\ tabs["tabA"].toggles = 1
    /\ tabs["tabA"].dataTheme = Str("light")
    /\ prefersDark
    /\ handled.op = "systemTheme"
    /\ handled.before["tabA"].currentTheme = Str("light")

\* what Theme.init makes of the value under the key: the value, or system when
\* there is none
InitialTheme(item) == IF item = Null THEN Str("system") ELSE Str(item.v)

\* the same, an empty string counting as no value
InitialThemeNonEmpty(item) ==
    IF item = Null \/ item = PlainText("") THEN Str("system") ELSE Str(item.v)

\* every write under the theme key is of light or dark
OnlyLightOrDarkWritten ==
    storage'[themeKey] # storage[themeKey] =>
        storage'[themeKey] \in {PlainText("light"), PlainText("dark")}

\* C32 (as stated): only light or dark is written under the theme key; the
\* initial state is the stored value if one is present and system otherwise,
\* whatever the value.
C32_StoredThemeUsedAsRead ==
    [][/\ OnlyLightOrDarkWritten
       /\ \A t \in Tabs :
             (handled'.op = "init" /\ handled'.tab = t /\ handled'.themeReadOk) =>
                tabs'[t].currentTheme = InitialTheme(storage[themeKey])]_vars

\* C32 (amended): only light or dark is written under the theme key; the
\* initial state is the stored value if a non-empty one is present and system
\* otherwise, whatever the value.
C32_NonEmptyStoredThemeUsedAsRead ==
    [][/\ OnlyLightOrDarkWritten
       /\ \A t \in Tabs :
             (handled'.op = "init" /\ handled'.tab = t /\ handled'.themeReadOk) =>
                /\ tabs'[t].currentTheme = InitialThemeNonEmpty(storage[themeKey])
                /\ tabs'[t].dataTheme
                      = ResolvedTheme(tabs'[t].currentTheme, prefersDark)]_vars

\* a page that started from a value outside light, dark and system, toggled
C32_Witness ==
    /\ handled.op = "toggle"
    /\ ~handled.raised
    /\ handled.before.currentTheme = Str("sepia")
    /\ handled.before.dataTheme = Str("sepia")
    /\ storage[themeKey] = PlainText("light")

(***************************************************************************)
(* Properties of the sessions, continued                                   *)
(***************************************************************************)
\* C33: under any interleaving of the page loads and trackEvent calls of the
\* tabs, all entries of the persisted log carry one sessionId, and the first
\* successful write of a page leaves a log of that page's events alone.
C33_OneSessionInLog ==
    /\ \A i, j \in DOMAIN Persisted :
          Persisted[i].props.sessionId = Persisted[j].props.sessionId
    /\ (lastWrite.op = "trackEvent" /\ lastWrite.ok) =>
          /\ Len(Persisted) = lastWrite.lenBefore + 1
          /\ \A i \in DOMAIN Persisted :
                Persisted[i].props.sessionId = tabs[lastWrite.tab].sessionId

\* the first write of tab B's page replaced three events of tab A's session,
\* tab A's page still open
C33_Witness ==
    /\ lastWrite.op = "trackEvent"
    /\ lastWrite.ok
    /\ lastWrite.tab = "tabB"
    /\ lastWrite.lenBefore = 0
    /\ lastWrite.before[trackingKey] # Null
    /\ Len(lastWrite.before[trackingKey].doc.items) = 3
    /\ lastWrite.before[trackingKey].doc.items[1].props.sessionId
          = tabs["tabA"].sessionId
    /\ tabs["tabA"].phase = "ready"
    /\ Len(Persisted) = 1

(***************************************************************************)
(* Properties of the summary, continued                                    *)
(***************************************************************************)
\* the sum of the values of an object, NaN unless all of them are numbers
RECURSIVE SumOfCounts(_, _)
SumOfCounts(props, keys) ==
    IF keys = {} THEN Num(0)
    ELSE LET k == CHOOSE key \in keys : TRUE
             rest == SumOfCounts(props, keys \ {k})
         IN  IF props[k].t = "number" /\ rest.t = "number"
             THEN Num(props[k].v + rest.v)
             ELSE NaN

\* C34: for every persisted log of well-formed events the totalClicks of
\* getSummary is the sum of the counts in categories, and totalClicks is at most
\* totalEvents.
C34_ClicksAddUp ==
    SummaryOfWellFormedLog =>
        /\ ~ret.raised
        /\ LET summary == ret.value.props
           IN  /\ SumOfCounts(summary.categories.props,
                              DOMAIN summary.categories.props) = summary.totalClicks
               /\ summary.totalClicks.v <= summary.totalEvents.v

(***************************************************************************)
(* Properties of the listeners                                             *)
(***************************************************************************)
\* the names of the events the last listener run added to tab t's sequence
AddedNames(t) ==
    LET had == Len(handled.before.events)
    IN  [i \in 1..(Len(tabs[t].events) - had) |-> tabs[t].events[had + i].props.name]

\* C35: after a successful initialization each uncaught error delivered to the
\* window appends exactly two events to the session's sequence, one named error
\* and one named global_error, and both are in the persisted log when the later
\* write succeeded.
C35_TwoErrorEvents ==
    (handled.op = "error" /\ handled.before.isInitialized) =>
        LET t == handled.tab
            had == Len(handled.before.events)
        IN  /\ ~handled.raised
            /\ SubSeq(tabs[t].events, 1, had) = handled.before.events
            /\ AddedNames(t) \in {<<Str("error"), Str("global_error")>>,
                                  <<Str("global_error"), Str("error")>>}
            /\ lastWrite.ok => Persisted = Serialized(tabs[t].events)

\* an error on a page initialized from DOMContentLoaded, the window-level
\* listener running first, the first write failing and the second succeeding
C35_Witness ==
    /\ handled.op = "error"
    /\ handled.before.isInitialized
    /\ tabs["tabA"].deferred
    /\ AddedNames("tabA") = <<Str("global_error"), Str("error")>>
    /\ lastWrite.ok
    /\ lastWrite.before[trackingKey] # Null
    /\ Len(lastWrite.before[trackingKey].doc.items) = 2
    /\ Len(Persisted) = 4

\* the category a card is recorded with
RecordedCategory(category) ==
    IF category.t = "undefined" \/ category = Str("") THEN Str("unknown") ELSE category

\* C36: every click on a link card appends exactly one link_click event,
\* recorded with the card's category, or with 'unknown' when the card has no
\* category or an empty one; a summary counts every stored click under the
\* category it was recorded with.
C36_EveryClickRecorded ==
    /\ handled.op = "click" =>
          LET t == handled.tab
          IN  /\ Len(tabs[t].events) = handled.lenBefore + 1
              /\ LastEvent(t).props.name = Str("link_click")
              /\ LastEvent(t).props.data.props.category
                    = RecordedCategory(handled.category)
    /\ (ret.op = "getSummary" /\ ret.readOk) =>
          /\ ~ret.raised
          /\ \A i \in Named(Persisted, "link_click") :
                LET category == Persisted[i].props.data.props.category
                IN  /\ category \in {Str("music"), Str("unknown")}
                    /\ ret.value.props.categories.props[category.v]
                          = Num(Cardinality(ClicksIn(Persisted, category.v)))

(***************************************************************************)
(* Properties of the animations, continued                                 *)
(***************************************************************************)
\* nothing of the scroll listener is pending and the header shows the factor
\* of the current offset (no style was written if no scroll event was heard)
ScrollSettled(t) ==
    LET scroll == tabs[t].scroll
    IN  /\ ~scroll.timeout
        /\ ~scroll.ticking
        /\ scroll.raf = 0
        /\ IF scroll.header = Null THEN scroll.scrollY = 0
           ELSE scroll.header = Num(ScrollOpacity(scroll.scrollY))

\* C37: once the scroll events of a page with the scroll listener have ended,
\* the timeout of the debounce and the pending frame callback run, the header
\* is recomputed from the final offset and the ticking flag is false again.
C37_ScrollSettles ==
    \A t \in Tabs :
        <>[][~Scroll(t)]_vars => <>[](tabs[t].scroll.listening => ScrollSettled(t))

\* a second burst has been taken up: the header shows the factor of its
\* final offset, half of the range
C37_Witness ==
    /\ tabs["tabA"].scroll.listening
    /\ ScrollSettled("tabA")
    /\ tabs["tabA"].scroll.scrollY = 50
    /\ tabs["tabA"].scroll.header = Num(50)
    /\ tabs["tabA"].scroll.ran = 1

(***************************************************************************)
(* Properties of the lazy images                                           *)
(***************************************************************************)
\* C38: an image reported as intersecting while it has a deferred source gets
\* that source as src, loses the data-src attribute and is unobserved; the
\* script assigns the src of an image at most once, and of no other image.
C38_LazyImageOnce ==
    [][\A t \in Tabs : \A e \in Images :
          LET image == tabs'[t].images[e]
          IN  /\ image.assigned <= 1
              /\ image.assigned = 1 =>
                    /\ image.src = DeferredSource[e]
                    /\ image.dataSrc = Undefined
                    /\ ~image.observed
              /\ image.assigned = 0 =>
                    /\ image.src = DocumentSource[e]
                    /\ image.dataSrc = DeferredSource[e]
              /\ (SamePage(t) /\ tabs[t].images[e].assigned = 1) =>
                    image = tabs[t].images[e]
              /\ (handled'.op = "images" /\ handled'.tab = t
                    /\ e \in DOMAIN handled'.entries /\ handled'.entries[e]
                    /\ DeferredSource[e] \notin {Undefined, Str("")}) =>
                    /\ tabs[t].images[e].assigned = 0
                    /\ image.assigned = 1]_vars

\* the hero image was loaded on an earlier report; the observer now reports the
\* image whose data-src is empty, which stays as it is
C38_Witness ==
    /\ handled.op = "images"
    /\ DOMAIN handled.entries = {"img-empty"}
    /\ handled.entries["img-empty"]
    /\ tabs["tabA"].images["img-hero"].src = Str("hero.jpg")
    /\ tabs["tabA"].images["img-hero"].assigned = 1
    /\ tabs["tabA"].images["img-empty"].observed
    /\ tabs["tabA"].images["img-empty"].src = Null

====
